---------------------------- MODULE Spec2Model ----------------------------
(***************************************************************************)
(* Map/reduce text pipeline of llm-release-action: the text chunker        *)
(* (text_splitter.py), the response parsers (map_reduce.py, flatten.py)    *)
(* and process_large_input (map_reduce.py) as a state machine.             *)
(*                                                                         *)
(* A text is a sequence of one-character strings.  An LLM response is a    *)
(* sequence of lines, each line a record (see Ln below); the parsers are   *)
(* modelled on that line structure.                                        *)
(***************************************************************************)
EXTENDS Integers, Sequences, FiniteSets

\* ------------------------------------------------------------------ bounds
\* Longest content handed to process_large_input.
MaxLen == 4
\* chunk_size ranges over 1..MaxChunkSize, chunk_overlap over 0..MaxOverlap.
MaxChunkSize == 3
MaxOverlap == 1
\* Contents are drawn among those that chunk into at most MaxChunks chunks.
MaxChunks == 3
\* max_workers ranges over 1..MaxWorkers.
MaxWorkers == 2
\* A content_override matches at most MaxHits patterns of each pattern table.
MaxHits == 1
\* Patterns without a group are runs of 1 to MaxPieces quantified atoms.
MaxPieces == 3
\* The methods of one TimeoutPattern are called at most MaxCalls times.
MaxCalls == 2
\* Longest string handed to a method of a TimeoutPattern.
MaxString == 2
\* filter_changes gets at most MaxPatterns exclude patterns and MaxChanges
\* changes.
MaxPatterns == 2
MaxChanges == 2
\* A changelog has at most MaxLines lines; max_tokens ranges over 0..MaxBudget.
MaxLines == 3
MaxBudget == 5
\* summarize_to_budget gets at most MaxContent characters and a max_tokens
\* in 0..MaxSummaryBudget.
MaxContent == 9
MaxSummaryBudget == 1
\* call_llm_with_retry gets a max_retries in 0..MaxRetries.
MaxRetries == 3
\* run_phase2 has at most MaxTasks tasks (audience and language pairs).
MaxTasks == 2
\* sanitize_content gets a content of at most MaxFragments fragments.
MaxFragments == 3

\* ------------------------------------------------------- program constants
\* reduce_changes skips the reduce call at or below this many changes.
REDUCE_SKIP_THRESHOLD == 5
\* content_scanner.py: the token budget and the hard size limit of a scan.
MAX_TOKENS == 8000
MAX_CONTENT_SIZE == 500000
\* input_validation.py: the longest pattern accepted, and the default
\* timeout of a match in seconds.
MAX_PATTERN_LENGTH == 200
REGEX_TIMEOUT == 1

\* ---------------------------------------------------------------- helpers
Min(a, b) == IF a <= b THEN a ELSE b

Range(s) == {s[i] : i \in 1..Len(s)}

RECURSIVE Concat(_)
\* Concatenation of a sequence of sequences.
Concat(ss) == IF ss = <<>> THEN <<>> ELSE Head(ss) \o Concat(Tail(ss))

\* ------------------------------------------------------------------- texts
Chars == {"a", " ", "\n"}
Whitespace == {" ", "\n"}

RECURSIVE TextsOfLen(_)
TextsOfLen(n) ==
  IF n = 0 THEN {<<>>}
  ELSE {<<c>> \o t : c \in Chars, t \in TextsOfLen(n - 1)}

Texts == UNION {TextsOfLen(n) : n \in 0..MaxLen}

RECURSIVE TextsOver(_, _)
\* The texts of length n over the characters cs.
TextsOver(cs, n) ==
  IF n = 0 THEN {<<>>}
  ELSE {<<c>> \o t : c \in cs, t \in TextsOver(cs, n - 1)}

\* The texts given to chunk_with_overlap when it is called on its own: two
\* letters, so that the order of the words shows.
ChunkTexts == UNION {TextsOver({"a", "b", " ", "\n"}, n) : n \in 0..MaxLen}

RECURSIVE lstrip(_)
lstrip(t) == IF t # <<>> /\ Head(t) \in Whitespace THEN lstrip(Tail(t)) ELSE t

RECURSIVE rstrip(_)
rstrip(t) ==
  IF t # <<>> /\ t[Len(t)] \in Whitespace
  THEN rstrip(SubSeq(t, 1, Len(t) - 1))
  ELSE t

\* str.strip()
strip(t) == rstrip(lstrip(t))

\* Position of the first occurrence of sep in text at or after from, 0 if none.
FindSep(text, sep, from) ==
  LET hits == {i \in from..(Len(text) - Len(sep) + 1) :
                 SubSeq(text, i, i + Len(sep) - 1) = sep}
  IN IF hits = {} THEN 0 ELSE CHOOSE i \in hits : \A j \in hits : i <= j

RECURSIVE SplitFrom(_, _, _)
\* The pieces of re.split("(sep)", text) from a match at position start on,
\* each with its separator glued in front (keep_separator).
SplitFrom(text, sep, start) ==
  LET j == FindSep(text, sep, start + Len(sep))
  IN IF j = 0
     THEN <<SubSeq(text, start, Len(text))>>
     ELSE <<SubSeq(text, start, j - 1)>> \o SplitFrom(text, sep, j)

\* _split_text_with_regex with keep_separator = True.
split_text_with_regex(text, separator) ==
  LET raw ==
        IF separator = <<>>
        THEN [i \in 1..Len(text) |-> <<text[i]>>]
        ELSE LET i == FindSep(text, separator, 1)
             IN IF i = 0
                THEN <<text>>
                ELSE <<SubSeq(text, 1, i - 1)>> \o SplitFrom(text, separator, i)
  IN SelectSeq(raw, LAMBDA s : s # <<>>)

\* Python's None as returned by _join_docs.
None == <<"None">>

\* Only the first of the joined splits is kept.
join_docs_first(docs, separator) ==
  LET text == IF docs = <<>> THEN <<>> ELSE strip(Head(docs))
  IN IF text = <<>> THEN None ELSE text

\* The empty text is returned like any other.
join_docs_keep_empty(docs, separator) == strip(Concat(docs))

\* RecursiveCharacterTextSplitter._join_docs (strip_whitespace = True).
join_docs(docs, separator) ==
  LET text == strip(Concat(docs))
  IN IF text = <<>> THEN None ELSE text

RECURSIVE PopOverlap(_, _, _, _, _, _)
\* The inner while loop of _merge_splits: returns <<current_doc, total>>.
PopOverlap(current_doc, total, len, separator_len, chunk_size, chunk_overlap) ==
  IF total > chunk_overlap
     \/ (total + len + (IF Len(current_doc) > 0 THEN separator_len ELSE 0) > chunk_size
         /\ total > 0)
  THEN PopOverlap(Tail(current_doc),
                  total - (Len(current_doc[1])
                           + (IF Len(current_doc) > 1 THEN separator_len ELSE 0)),
                  len, separator_len, chunk_size, chunk_overlap)
  ELSE <<current_doc, total>>

RECURSIVE MergeLoop(_, _, _, _, _, _, _, _)
\* The for loop of _merge_splits from split i on.
MergeLoop(splits, i, docs, current_doc, total, separator, chunk_size, chunk_overlap) ==
  IF i > Len(splits)
  THEN LET doc == join_docs(current_doc, separator)
       IN IF doc # None THEN Append(docs, doc) ELSE docs
  ELSE
    LET d == splits[i]
        len == Len(d)
        separator_len == Len(separator)
        over == total + len + (IF Len(current_doc) > 0 THEN separator_len ELSE 0)
                  > chunk_size
        emit == over /\ Len(current_doc) > 0
        doc == join_docs(current_doc, separator)
        docs1 == IF emit /\ doc # None THEN Append(docs, doc) ELSE docs
        popped == IF emit
                  THEN PopOverlap(current_doc, total, len, separator_len,
                                  chunk_size, chunk_overlap)
                  ELSE <<current_doc, total>>
        cur1 == Append(popped[1], d)
        total1 == popped[2] + len + (IF Len(cur1) > 1 THEN separator_len ELSE 0)
    IN MergeLoop(splits, i + 1, docs1, cur1, total1, separator, chunk_size, chunk_overlap)

\* RecursiveCharacterTextSplitter._merge_splits
merge_splits(splits, separator, chunk_size, chunk_overlap) ==
  MergeLoop(splits, 1, <<>>, <<>>, 0, separator, chunk_size, chunk_overlap)

\* The separators without the last one, "": nothing splits a word.
Separators_to_the_word == << <<"\n", "\n">>, <<"\n">>, <<" ">> >>
\* separators=["\n\n", "\n", " ", ""] of chunk_with_overlap.
Separators == << <<"\n", "\n">>, <<"\n">>, <<" ">>, <<>> >>

\* The separator-selection loop of _split_text: the index in separators of
\* the first separator that is "" or occurs in text.
PickSeparator(text, separators) ==
  LET ok == {i \in 1..Len(separators) :
               separators[i] = <<>> \/ FindSep(text, separators[i], 1) # 0}
  IN IF ok = {} THEN 0 ELSE CHOOSE i \in ok : \A j \in ok : i <= j

RECURSIVE split_text_rec(_, _, _, _)
RECURSIVE SplitLoop(_, _, _, _, _, _, _)
\* The for loop of _split_text over splits from index i on.
SplitLoop(splits, i, good_splits, final_chunks, new_separators, chunk_size, chunk_overlap) ==
  IF i > Len(splits)
  THEN IF good_splits # <<>>
       THEN final_chunks \o merge_splits(good_splits, <<>>, chunk_size, chunk_overlap)
       ELSE final_chunks
  ELSE
    LET s == splits[i]
    IN IF Len(s) < chunk_size
       THEN SplitLoop(splits, i + 1, Append(good_splits, s), final_chunks,
                      new_separators, chunk_size, chunk_overlap)
       ELSE
         LET merged == IF good_splits # <<>>
                       THEN final_chunks
                              \o merge_splits(good_splits, <<>>, chunk_size, chunk_overlap)
                       ELSE final_chunks
             other == IF new_separators = <<>>
                      THEN <<s>>
                      ELSE split_text_rec(s, new_separators, chunk_size, chunk_overlap)
         IN SplitLoop(splits, i + 1, <<>>, merged \o other,
                      new_separators, chunk_size, chunk_overlap)

\* RecursiveCharacterTextSplitter._split_text
split_text_rec(text, separators, chunk_size, chunk_overlap) ==
  LET k == PickSeparator(text, separators)
      separator == IF k = 0 THEN separators[Len(separators)] ELSE separators[k]
      new_separators ==
        IF k = 0 \/ separators[k] = <<>>
        THEN <<>>
        ELSE SubSeq(separators, k + 1, Len(separators))
      splits == split_text_with_regex(text, separator)
  IN SplitLoop(splits, 1, <<>>, <<>>, new_separators, chunk_size, chunk_overlap)

\* chunk_with_overlap
chunk_with_overlap(text, chunk_size, chunk_overlap) ==
  IF Len(text) <= chunk_size
  THEN <<text>>
  ELSE split_text_rec(text, Separators, chunk_size, chunk_overlap)

\* needs_chunking
needs_chunking(text, threshold) == Len(text) > threshold

\* ------------------------------------------------------------ LLM responses
\* One line of a response.  kind: "open" (a line "<TAG>"), "close" ("</TAG>"),
\* "item" ("[cat|imp] title | desc", imp = "" when "|imp" is absent, desc = ""
\* when "| desc" is absent), "comment" ("# ..."), "bullet" ("- ..."), "blank",
\* "text" (prose), "refusal" (prose such as "I cannot ...").
Ln(kind, tag, cat, imp, title, desc) ==
  [kind |-> kind, tag |-> tag, cat |-> cat, imp |-> imp, title |-> title, desc |-> desc]

OpenTag(t) == Ln("open", t, "", "", "", "")
CloseTag(t) == Ln("close", t, "", "", "", "")
ItemLine(cat, imp, title, desc) == Ln("item", "", cat, imp, title, desc)
CommentLine == Ln("comment", "", "", "", "", "")
BulletLine == Ln("bullet", "", "", "", "", "")
BlankLine == Ln("blank", "", "", "", "", "")
TextLine == Ln("text", "", "", "", "", "")
RefusalLine == Ln("refusal", "", "", "", "", "")

\* "I cannot process this request."
RespRefusal == << RefusalLine >>
RespOne ==
  << OpenTag("CHANGES"),
     ItemLine("feature", "high", "OAuth", "authorize endpoint"),
     CloseTag("CHANGES") >>
RespThree ==
  << OpenTag("CHANGES"),
     BlankLine,
     CommentLine,
     ItemLine("breaking", "low", "Drop v1 API", "removed"),
     ItemLine("fix", "", "Login crash", ""),
     ItemLine("fix", "low", "", "no title"),
     ItemLine("bogus", "high", "Misc", "cleanup"),
     CloseTag("CHANGES") >>
RespFlat ==
  << TextLine,
     OpenTag("FLATTENED"),
     ItemLine("security", "high", "Token check", "net state"),
     ItemLine("docs", "urgent", "Guide", ""),
     CloseTag("FLATTENED"),
     BlankLine,
     BulletLine >>
\* "I cannot ..." in front of a <CHANGES> block with one item.
RespFlagged ==
  << RefusalLine,
     OpenTag("CHANGES"),
     ItemLine("feature", "high", "Audit", "log"),
     CloseTag("CHANGES") >>
\* An item line in front of an opening <CHANGES> tag with nothing after it.
RespItemBeforeTag ==
  << ItemLine("feature", "medium", "Audit trail", "early"),
     OpenTag("CHANGES") >>

\* The outcome of one collaborator call: it raised, or it returned response.
Raised == [raised |-> TRUE, response |-> <<>>]
Returned(response) == [raised |-> FALSE, response |-> response]

\* What llm_caller may answer to a map prompt.
MapResponses == {RespRefusal, RespOne, RespThree, RespFlagged}
\* What the reducer may answer to a reduce or a flatten prompt.
ReducerResponses == {RespRefusal, RespOne, RespFlat, RespItemBeforeTag}

MapOutcomes == {Raised} \cup {Returned(r) : r \in MapResponses}
ReducerOutcomes == {Raised} \cup {Returned(r) : r \in ReducerResponses}

\* ------------------------------------------------------------------ parsers
\* _parse_category of map_reduce.py and flatten.py: cat_map.get(s, OTHER).
parse_category(cat_str) ==
  CASE cat_str = "breaking" -> "breaking"
    [] cat_str = "security" -> "security"
    [] cat_str = "feature" -> "feature"
    [] cat_str = "improvement" -> "improvement"
    [] cat_str = "fix" -> "fix"
    [] cat_str = "performance" -> "performance"
    [] cat_str = "deprecation" -> "deprecation"
    [] cat_str = "infrastructure" -> "infrastructure"
    [] cat_str = "docs" -> "docs"
    [] cat_str = "documentation" -> "docs"
    [] OTHER -> "other"

\* _parse_importance: imp_map.get(s, MEDIUM).
parse_importance(imp_str) ==
  CASE imp_str = "high" -> "high"
    [] imp_str = "medium" -> "medium"
    [] imp_str = "low" -> "low"
    [] OTHER -> "medium"

\* A Change; id n stands for the string "change-n".
Change(id, line) ==
  [id |-> id,
   category |-> parse_category(line.cat),
   title |-> line.title,
   description |-> line.desc,
   importance |-> parse_importance(IF line.imp = "" THEN "medium" ELSE line.imp)]

\* _parse_change_line: <<>> for None, else a one-element sequence.
parse_change_line(line, index) ==
  IF line.kind # "item" \/ line.title = ""
  THEN <<>>
  ELSE << Change(index, line) >>

\* Position of the first line of kind k and tag t after position from, 0 if none.
FindTag(response, k, t, from) ==
  LET hits == {i \in (from + 1)..Len(response) :
                 response[i].kind = k /\ response[i].tag = t}
  IN IF hits = {} THEN 0 ELSE CHOOSE i \in hits : \A j \in hits : i <= j

RECURSIVE lstrip_lines(_)
lstrip_lines(ls) ==
  IF ls # <<>> /\ Head(ls).kind = "blank" THEN lstrip_lines(Tail(ls)) ELSE ls

RECURSIVE rstrip_lines(_)
rstrip_lines(ls) ==
  IF ls # <<>> /\ ls[Len(ls)].kind = "blank"
  THEN rstrip_lines(SubSeq(ls, 1, Len(ls) - 1))
  ELSE ls

\* _extract_changes_from_response: the lines after the first <CHANGES> up to
\* the next </CHANGES> or the end (the whole response without the tag), each
\* parsed with its 0-based line number as index.
extract_changes_from_response(response) ==
  LET o == FindTag(response, "open", "CHANGES", 0)
      c == IF o = 0 THEN 0 ELSE FindTag(response, "close", "CHANGES", o)
      lines == IF o = 0
               THEN response
               ELSE lstrip_lines(SubSeq(response, o + 1,
                                        IF c = 0 THEN Len(response) ELSE c - 1))
  IN Concat([i \in 1..Len(lines) |-> parse_change_line(lines[i], i - 1)])

\* parse_flattened_response: the stripped text between <FLATTENED> and
\* </FLATTENED>, or the stripped response when the pair is not found.
parse_flattened_response(response) ==
  LET opens == {i \in 1..Len(response) :
                  /\ response[i].kind = "open"
                  /\ response[i].tag = "FLATTENED"
                  /\ FindTag(response, "close", "FLATTENED", i) # 0}
      o == CHOOSE i \in opens : \A j \in opens : i <= j
  IN IF opens = {}
     THEN rstrip_lines(lstrip_lines(response))
     ELSE rstrip_lines(lstrip_lines(
            SubSeq(response, o + 1, FindTag(response, "close", "FLATTENED", o) - 1)))

\* parse_flattened_changes: item lines of the flattened content, ids from the
\* 1-based line number.
parse_flattened_changes(response) ==
  LET lines == parse_flattened_response(response)
  IN Concat([i \in 1..Len(lines) |-> parse_change_line(lines[i], i)])

\* validate_response: the issues found, here the refusal indicator.
validate_response(response) ==
  IF \E i \in 1..Len(response) : response[i].kind = "refusal"
  THEN << "refusal" >>
  ELSE <<>>

\* ------------------------------------------------------------ reduce helpers
\* priority.get(c.category, 10) of reduce_changes.
priority(category) ==
  CASE category = "breaking" -> 0
    [] category = "security" -> 1
    [] category = "feature" -> 2
    [] category = "fix" -> 3
    [] OTHER -> 10

\* imp_priority.get(c.importance, 2) of reduce_changes.
imp_priority(importance) ==
  CASE importance = "high" -> 0
    [] importance = "medium" -> 1
    [] importance = "low" -> 2
    [] OTHER -> 2

\* The key with category rank first and importance rank second.
sort_key_category_first(c) == << priority(c.category), imp_priority(c.importance) >>

\* The sort key of the reduce fallback.
sort_key(c) == << imp_priority(c.importance), priority(c.category) >>

\* Tuple order of two keys.
KeyLess(k1, k2) == k1[1] < k2[1] \/ (k1[1] = k2[1] /\ k1[2] < k2[2])

RECURSIVE InsertSorted(_, _)
\* c inserted after every element whose key is not greater (stable).
InsertSorted(sorted_changes, c) ==
  IF sorted_changes = <<>>
  THEN << c >>
  ELSE IF KeyLess(sort_key(c), sort_key(Head(sorted_changes)))
       THEN << c >> \o sorted_changes
       ELSE << Head(sorted_changes) >> \o InsertSorted(Tail(sorted_changes), c)

RECURSIVE SortChanges(_, _)
\* sorted(all_changes, key=...): a stable sort.
SortChanges(changes, acc) ==
  IF changes = <<>>
  THEN acc
  ELSE SortChanges(Tail(changes), InsertSorted(acc, Head(changes)))

\* change.id = f"change-{first}", first + 1, ... in list order.
AssignIds(changes, first) ==
  [i \in 1..Len(changes) |-> [changes[i] EXCEPT !.id = first + i - 1]]

\* ------------------------------------------------- process_large_input
\* The skip test with the boundary excluded.
reduce_skipped_below(changes) == Len(changes) < REDUCE_SKIP_THRESHOLD

\* The reduce_changes test "len(all_changes) <= 5".
reduce_skipped(changes) == Len(changes) <= REDUCE_SKIP_THRESHOLD

\* A fallback that keeps only the five foremost changes.
reduce_fallback_top(changes) ==
  SubSeq(SortChanges(changes, <<>>), 1, Min(Len(changes), REDUCE_SKIP_THRESHOLD))

\* The fallback of reduce_changes: the original changes, sorted.
reduce_fallback(changes) == SortChanges(changes, <<>>)

\* An assignment in place of the extend.
extend_overwrite(changes, chunk_changes) == chunk_changes

\* "all_changes.extend(chunk_changes)"
extend(changes, chunk_changes) == changes \o chunk_changes

\* The test without the single-chunk case.
single_chunk_empty_only(cs) == Len(cs) < 1

\* The test "len(chunks) <= 1" of process_large_input.
single_chunk(cs) == Len(cs) <= 1

\* The final list without the fall back to reduced.
final_changes_no_fallback(flattened_changes, reduced) == flattened_changes

\* "Use flattened if we got results, otherwise fall back to reduced".
final_changes(flattened_changes, reduced) ==
  IF flattened_changes # <<>> THEN flattened_changes ELSE reduced

\* Lines printed with the prefix "Warning:".  chunk is the chunk index the
\* line names, -1 when it names none.
chunk_failed_warning_one_based(chunk_idx) ==
  [kind |-> "chunk_failed", chunk |-> chunk_idx + 1]
chunk_failed_warning(chunk_idx) == [kind |-> "chunk_failed", chunk |-> chunk_idx]
suspicious_map_warning == [kind |-> "suspicious_llm_response", chunk |-> -1]
suspicious_reduce_warning == [kind |-> "suspicious_reduce_response", chunk |-> -1]
reduce_fallback_warning == [kind |-> "reduce_failed_to_parse", chunk |-> -1]

\* A reducer call that was not made (yet).
NoCall == [called |-> FALSE, raised |-> FALSE, response |-> <<>>]
Called(o) == [called |-> TRUE, raised |-> o.raised, response |-> o.response]

\* ========================================================================
\* Content scanner (content_scanner.py) and its callers in analyze.py and
\* input_validation.py.
\*
\* A content_override is described by what the scanner's checks find in it:
\* its length, whether strip() leaves nothing, estimate_tokens of it, how
\* many patterns of each table match it and which detectors report issues.

ThreatLevel == << "NONE", "LOW", "MEDIUM", "HIGH", "CRITICAL" >>

\* levels.index(level) of _max_threat_level, 1-based.
LevelIndex(level) == CHOOSE i \in 1..Len(ThreatLevel) : ThreatLevel[i] = level

\* The later level replaces the running one.
max_threat_level_latest(current, new) == new

\* _max_threat_level
max_threat_level(current, new) ==
  IF LevelIndex(current) >= LevelIndex(new) THEN current ELSE new

ContentOverrides ==
  {c \in [len : {0, 1, MAX_CONTENT_SIZE, MAX_CONTENT_SIZE + 1},
          blank : BOOLEAN,
          tokens : {0, MAX_TOKENS, MAX_TOKENS + 1},
          role : 0..MaxHits,
          instruction : 0..MaxHits,
          delimiter : 0..MaxHits,
          context : BOOLEAN,
          encoding : BOOLEAN,
          format : BOOLEAN,
          control : BOOLEAN] :
     /\ c.tokens <= c.len
     \* a table pattern needs more than one character to match
     /\ c.len <= 1 => c.role = 0 /\ c.instruction = 0 /\ c.delimiter = 0
     \* whitespace holds no word, no pattern match, no header and no bullet
     /\ c.blank => /\ c.tokens = 0
                   /\ c.role = 0 /\ c.instruction = 0 /\ c.delimiter = 0
                   /\ c.format
     /\ c.len = 0 => c.blank /\ ~c.context /\ ~c.encoding /\ ~c.control}

\* "" (or None): the falsy content_override.
NoContent ==
  [len |-> 0, blank |-> TRUE, tokens |-> 0, role |-> 0, instruction |-> 0,
   delimiter |-> 0, context |-> FALSE, encoding |-> FALSE, format |-> TRUE,
   control |-> FALSE]

\* dataclass ScanResult
ScanResult(level, issue_list, tokens, trunc) ==
  [threat_level |-> level, issues |-> issue_list, token_estimate |-> tokens,
   truncated |-> trunc]

NoResult == ScanResult("NONE", <<>>, 0, FALSE)

\* The checks of scan_content_override after the size checks, in source
\* order: the scan_pc they run at, the issue they append, their level.
Checks ==
  << [at |-> "role", issue |-> "role_hijacking", level |-> "HIGH"],
     [at |-> "instruction", issue |-> "instruction_injection", level |-> "HIGH"],
     [at |-> "delimiter", issue |-> "delimiter_injection", level |-> "MEDIUM"],
     [at |-> "context", issue |-> "context_attack", level |-> "MEDIUM"],
     [at |-> "encoding", issue |-> "encoding_trick", level |-> "HIGH"],
     [at |-> "format", issue |-> "format", level |-> "LOW"],
     [at |-> "control", issue |-> "control_characters", level |-> "MEDIUM"] >>

\* How many issues check k finds in content c.
Hits(c, k) ==
  CASE Checks[k].at = "role" -> c.role
    [] Checks[k].at = "instruction" -> c.instruction
    [] Checks[k].at = "delimiter" -> c.delimiter
    [] Checks[k].at = "context" -> IF c.context THEN 1 ELSE 0
    [] Checks[k].at = "encoding" -> IF c.encoding THEN 1 ELSE 0
    [] Checks[k].at = "format" -> IF c.format THEN 1 ELSE 0
    [] Checks[k].at = "control" -> IF c.control THEN 1 ELSE 0

\* One line written by handle_scan_result.
LogLine(fn, text, issue_list, tokens) ==
  [fn |-> fn, text |-> text, issues |-> issue_list, tokens |-> tokens]

NoError == [level |-> "NONE", issues |-> <<>>]

\* Only CRITICAL is blocked; HIGH is logged like MEDIUM and LOW.
handle_scan_result_critical_only(result, logger) ==
  LET log == IF logger = "None" THEN "print" ELSE "logger.warning"
      log_info == IF logger = "None" THEN "print" ELSE "logger.info"
  IN IF result.threat_level = "CRITICAL"
     THEN [raised |-> TRUE,
           error |-> [level |-> result.threat_level, issues |-> result.issues],
           lines |-> <<>>]
     ELSE [raised |-> FALSE,
           error |-> NoError,
           lines |->
             (IF result.threat_level \in {"HIGH", "MEDIUM", "LOW"}
              THEN << LogLine(log_info, "Content scan", result.issues, 0) >>
              ELSE <<>>)
             \o (IF result.truncated
                 THEN << LogLine(log, "Content will be truncated", <<>>,
                                 result.token_estimate) >>
                 ELSE <<>>)]

\* MEDIUM is blocked as well.
handle_scan_result_medium_blocked(result, logger) ==
  LET log == IF logger = "None" THEN "print" ELSE "logger.warning"
      log_info == IF logger = "None" THEN "print" ELSE "logger.info"
  IN IF result.threat_level \in {"CRITICAL", "HIGH", "MEDIUM"}
     THEN [raised |-> TRUE,
           error |-> [level |-> result.threat_level, issues |-> result.issues],
           lines |-> <<>>]
     ELSE [raised |-> FALSE,
           error |-> NoError,
           lines |->
             (IF result.threat_level = "LOW"
              THEN << LogLine(log_info, "Content scan", result.issues, 0) >>
              ELSE <<>>)
             \o (IF result.truncated
                 THEN << LogLine(log, "Content will be truncated", <<>>,
                                 result.token_estimate) >>
                 ELSE <<>>)]

\* The truncation warning nested in the MEDIUM/LOW branch.
handle_scan_result_warning_nested(result, logger) ==
  LET log == IF logger = "None" THEN "print" ELSE "logger.warning"
      log_info == IF logger = "None" THEN "print" ELSE "logger.info"
  IN IF result.threat_level \in {"CRITICAL", "HIGH"}
     THEN [raised |-> TRUE,
           error |-> [level |-> result.threat_level, issues |-> result.issues],
           lines |-> <<>>]
     ELSE [raised |-> FALSE,
           error |-> NoError,
           lines |->
             IF result.threat_level \in {"MEDIUM", "LOW"}
             THEN << LogLine(log_info, "Content scan", result.issues, 0) >>
                    \o (IF result.truncated
                        THEN << LogLine(log, "Content will be truncated", <<>>,
                                        result.token_estimate) >>
                        ELSE <<>>)
             ELSE <<>>]

\* handle_scan_result: whether it raises ValueError (and for which level and
\* issues), and the lines it writes, in order.  logger is "None" or "logger".
handle_scan_result(result, logger) ==
  LET log == IF logger = "None" THEN "print" ELSE "logger.warning"
      log_info == IF logger = "None" THEN "print" ELSE "logger.info"
  IN IF result.threat_level = "CRITICAL"
     THEN [raised |-> TRUE,
           error |-> [level |-> "CRITICAL", issues |-> result.issues],
           lines |-> <<>>]
     ELSE IF result.threat_level = "HIGH"
     THEN [raised |-> TRUE,
           error |-> [level |-> "HIGH", issues |-> result.issues],
           lines |-> <<>>]
     ELSE [raised |-> FALSE,
           error |-> NoError,
           lines |->
             (IF result.threat_level \in {"MEDIUM", "LOW"}
              THEN << LogLine(log_info, "Content scan", result.issues, 0) >>
              ELSE <<>>)
             \o (IF result.truncated
                 THEN << LogLine(log, "Content will be truncated", <<>>,
                                 result.token_estimate) >>
                 ELSE <<>>)]

\* A prompt: what it was built from.
Prompt(source, c, trunc) == [source |-> source, content |-> c, truncated |-> trunc]
NoPrompt == Prompt("none", NoContent, FALSE)

\* ScanResult values a caller may hand to handle_scan_result directly.
IssueLists == {<<>>, << "role_hijacking" >>, << "tokens", "format" >>}
ScanResults ==
  {ScanResult(l, i, t, tr) : l \in Range(ThreatLevel), i \in IssueLists,
                             t \in {0, MAX_TOKENS}, tr \in BOOLEAN}

\* ========================================================================
\* Safe regular expressions (input_validation.py).  A pattern is a sequence
\* of one-character strings, like a text.

\* p[i], or "" beyond the ends of p.
At(p, i) == IF i \in 1..Len(p) THEN p[i] ELSE ""

\* No character of p[i..j] is in cs.
NoneIn(p, i, j, cs) == \A k \in i..j : p[k] \notin cs

\* s.startswith(t)
startswith(s, t) == Len(t) <= Len(s) /\ SubSeq(s, 1, Len(t)) = t

\* re.search of r"\([^)]*[+*]\)" followed by one character of tail.
NestedStar(p, tail) ==
  \E i \in 1..Len(p) : \E j \in (i + 1)..Len(p) :
    /\ p[i] = "("
    /\ NoneIn(p, i + 1, j - 1, {")"})
    /\ p[j] \in {"+", "*"}
    /\ At(p, j + 1) = ")"
    /\ At(p, j + 2) \in tail

\* re.search of r"\([^)]*\{[^}]+\}\)" followed by one character of tail.
NestedCount(p, tail) ==
  \E i \in 1..Len(p) : \E k \in (i + 1)..Len(p) : \E m \in (k + 2)..Len(p) :
    /\ p[i] = "("
    /\ NoneIn(p, i + 1, k - 1, {")"})
    /\ p[k] = "{"
    /\ NoneIn(p, k + 1, m - 1, {"}"})
    /\ p[m] = "}"
    /\ At(p, m + 1) = ")"
    /\ At(p, m + 2) \in tail

\* The loop over nested_quantifier_patterns (lines 62-75).
nested_quantifiers(p) ==
  \/ NestedStar(p, {"+", "*", "?"})
  \/ NestedStar(p, {"{"})
  \/ NestedCount(p, {"+", "*", "?"})
  \/ NestedCount(p, {"{"})

\* re.search(r"\([^)]*\|[^)]*\)[+*]", pattern)
AlternationUnderQuantifier(p) ==
  \E i \in 1..Len(p) : \E k \in (i + 1)..Len(p) : \E m \in (k + 1)..Len(p) :
    /\ p[i] = "("
    /\ NoneIn(p, i + 1, k - 1, {")"})
    /\ p[k] = "|"
    /\ NoneIn(p, k + 1, m - 1, {")"})
    /\ p[m] = ")"
    /\ At(p, m + 1) \in {"+", "*"}

\* The matches of r"\(([^)|]+)\|([^)]+)\)[+*]" in p, as <<i, k, m>>: "(" at
\* i, "|" at k, ")" at m.
AlternationMatches(p) ==
  {t \in (1..Len(p)) \X (1..Len(p)) \X (1..Len(p)) :
     /\ p[t[1]] = "("
     /\ t[2] > t[1] + 1
     /\ NoneIn(p, t[1] + 1, t[2] - 1, {")", "|"})
     /\ p[t[2]] = "|"
     /\ t[3] > t[2] + 1
     /\ NoneIn(p, t[2] + 1, t[3] - 1, {")"})
     /\ p[t[3]] = ")"
     /\ At(p, t[3] + 1) \in {"+", "*"}}

\* Lines 79-88: the two alternatives of the first match, one a prefix of the
\* other.
overlapping_alternations(p) ==
  /\ AlternationUnderQuantifier(p)
  /\ AlternationMatches(p) # {}
  /\ LET t == CHOOSE u \in AlternationMatches(p) :
                \A v \in AlternationMatches(p) : u[1] <= v[1]
         alt1 == SubSeq(p, t[1] + 1, t[2] - 1)
         alt2 == SubSeq(p, t[2] + 1, t[3] - 1)
     IN startswith(alt1, alt2) \/ startswith(alt2, alt1)

\* re.search of w, anything but a newline, and w again; w is ".*" or ".+".
TwoWildcards(p, w) ==
  \E i \in 1..Len(p) : \E j \in (i + 2)..Len(p) :
    /\ SubSeq(p, i, i + 1) = w
    /\ j + 1 <= Len(p)
    /\ SubSeq(p, j, j + 1) = w
    /\ NoneIn(p, i + 2, j - 1, {"\n"})

\* Line 91: ".*" twice or ".+" twice.
same_wildcard_twice(p) ==
  TwoWildcards(p, <<".", "*">>) \/ TwoWildcards(p, <<".", "+">>)

\* Lines 90-96.
unanchored_wildcards(p) ==
  /\ same_wildcard_twice(p)
  /\ ~startswith(p, <<"^">>)
  /\ ~(p # <<>> /\ p[Len(p)] = "$")

\* validate_pattern_safety: the errors, in order.
validate_pattern_safety(p) ==
  IF Len(p) > MAX_PATTERN_LENGTH
  THEN << "too_long" >>
  ELSE (IF nested_quantifiers(p) THEN << "nested_quantifiers" >> ELSE <<>>)
         \o (IF overlapping_alternations(p) THEN << "overlapping_alternations" >> ELSE <<>>)
         \o (IF unanchored_wildcards(p) THEN << "unbounded_wildcards" >> ELSE <<>>)

\* Open minus closed parentheses in p[1..i].
Depth(p, i) ==
  Cardinality({k \in 1..i : p[k] = "("}) - Cardinality({k \in 1..i : p[k] = ")"})

\* regex.compile accepts p: parentheses balanced, and no quantifier with
\* nothing in front of it to repeat.
regex_compiles(p) ==
  /\ \A i \in 1..Len(p) : Depth(p, i) >= 0
  /\ Depth(p, Len(p)) = 0
  /\ \A i \in 1..Len(p) :
       p[i] \in {"+", "*", "?", "{"} => At(p, i - 1) \notin {"", "(", "|", "^"}

\* The result of a call that raised error, or returned value.
Raise(error, detail) == [raised |-> TRUE, error |-> error, detail |-> detail]

\* TimeoutPattern(compiled, timeout); compiled is the pattern compiled with
\* regex.IGNORECASE.
TimeoutPattern(p, t) ==
  [raised |-> FALSE, pattern |-> p, flags |-> "IGNORECASE", timeout |-> t]

\* safe_compile_pattern
safe_compile_pattern(p, t) ==
  IF validate_pattern_safety(p) # <<>>
  THEN Raise("PatternCompilationError", validate_pattern_safety(p))
  ELSE IF ~regex_compiles(p)
  THEN Raise("PatternCompilationError", << "invalid_regex" >>)
  ELSE TimeoutPattern(p, t)

\* ------------------------------------------------- patterns to compile
Atoms == {<<"a">>, <<"b">>, <<".">>}
Quants == {<<>>, <<"+">>, <<"*">>, <<"?">>, <<"{", "2", "}">>}
Pieces == {a \o q : a \in Atoms, q \in Quants}
Alternatives == {<<"a">>, <<"b">>, <<"a", "b">>}
\* What stands inside a group: one or two pieces, an alternation, a group.
Bodies ==
  Pieces
    \cup {p \o q : p \in Pieces, q \in Pieces}
    \cup {x \o <<"|">> \o y : x \in Alternatives, y \in Alternatives}
    \cup {<<"(">> \o p \o <<")">> : p \in Pieces}
Groups == {<<"(">> \o b \o <<")">> \o q : b \in Bodies, q \in Quants}

RECURSIVE Runs(_)
\* 1 to n pieces in a row, each "a" or "." with "", "+" or "*".
Runs(n) ==
  IF n = 0
  THEN {}
  ELSE LET simple == {a \o q : a \in {<<"a">>, <<".">>}, q \in {<<>>, <<"+">>, <<"*">>}}
       IN simple \cup {r \o s : r \in Runs(n - 1), s \in simple}

\* MAX_PATTERN_LENGTH + 1 times "a".
LongPattern == [i \in 1..(MAX_PATTERN_LENGTH + 1) |-> "a"]

\* Patterns regex.compile rejects.
InvalidPatterns == {<<"(">>, <<"a", ")">>, <<"*", "a">>}

CompileInputs ==
  {pre \o p \o post : pre \in {<<>>, <<"^">>}, post \in {<<>>, <<"$">>},
                     p \in Groups \cup Runs(MaxPieces)}
    \cup {LongPattern} \cup InvalidPatterns

\* ------------------------------------------------- the regex engine
\* What regex.Pattern's methods compute for a pattern of plain letters.

\* str.lower of one character.
lower(c) == IF c = "A" THEN "a" ELSE IF c = "B" THEN "b" ELSE c

\* The letters of s as the flags of compiled pattern cp compare them.
Fold(cp, s) == IF cp.flags = "IGNORECASE" THEN [i \in 1..Len(s) |-> lower(s[i])] ELSE s

\* cp matches s at position i (from 1).
MatchAt(cp, s, i) ==
  /\ i + Len(cp.pattern) - 1 <= Len(s)
  /\ Fold(cp, SubSeq(s, i, i + Len(cp.pattern) - 1)) = Fold(cp, cp.pattern)

\* A Match object with its span, None, a list of strings, a string.
Match(i, j) == [kind |-> "Match", span |-> <<i, j>>, items |-> <<>>]
NoMatch == [kind |-> "None", span |-> <<0, 0>>, items |-> <<>>]
ListOf(items) == [kind |-> "list", span |-> <<0, 0>>, items |-> items]
StrOf(text) == [kind |-> "str", span |-> <<0, 0>>, items |-> text]

regex_search(cp, s) ==
  IF \E i \in 1..Len(s) : MatchAt(cp, s, i)
  THEN LET i == CHOOSE k \in 1..Len(s) :
                  MatchAt(cp, s, k) /\ \A m \in 1..(k - 1) : ~MatchAt(cp, s, m)
       IN Match(i - 1, i - 1 + Len(cp.pattern))
  ELSE NoMatch

regex_match(cp, s) ==
  IF MatchAt(cp, s, 1) THEN Match(0, Len(cp.pattern)) ELSE NoMatch

regex_fullmatch(cp, s) ==
  IF MatchAt(cp, s, 1) /\ Len(s) = Len(cp.pattern) THEN Match(0, Len(s)) ELSE NoMatch

RECURSIVE FindAllFrom(_, _, _)
\* The matches of cp in s from position i on, left to right, not overlapping.
FindAllFrom(cp, s, i) ==
  IF i > Len(s)
  THEN <<>>
  ELSE IF MatchAt(cp, s, i)
  THEN << SubSeq(s, i, i + Len(cp.pattern) - 1) >>
         \o FindAllFrom(cp, s, i + Len(cp.pattern))
  ELSE FindAllFrom(cp, s, i + 1)

RECURSIVE SubFrom(_, _, _, _)
\* s from position i on with every match of cp replaced by repl.
SubFrom(cp, repl, s, i) ==
  IF i > Len(s)
  THEN <<>>
  ELSE IF MatchAt(cp, s, i)
  THEN repl \o SubFrom(cp, repl, s, i + Len(cp.pattern))
  ELSE << s[i] >> \o SubFrom(cp, repl, s, i + 1)

Methods == {"search", "match", "fullmatch", "findall", "sub"}

\* self._pattern.<method>(string), or .sub(repl, string).
EngineCall(cp, method, repl, s) ==
  CASE method = "search" -> regex_search(cp, s)
    [] method = "match" -> regex_match(cp, s)
    [] method = "fullmatch" -> regex_fullmatch(cp, s)
    [] method = "findall" -> ListOf(FindAllFrom(cp, s, 1))
    [] method = "sub" -> StrOf(SubFrom(cp, repl, s, 1))

\* A timeout drops the IGNORECASE flag of the compiled pattern.
TimeoutPatternCall_invalidating(self, method, repl, s, timed_out) ==
  IF timed_out
  THEN [self |-> [self EXCEPT !.flags = ""], raised |-> TRUE,
        error |-> "PatternTimeoutError", value |-> NoMatch]
  ELSE [self |-> self, raised |-> FALSE, error |-> "",
        value |-> EngineCall(self, method, repl, s)]

\* TimeoutPattern.search, .match, .fullmatch, .findall and .sub: the engine
\* runs with timeout self.timeout; timed_out says that it ran out of time.
TimeoutPatternCall(self, method, repl, s, timed_out) ==
  IF timed_out
  THEN [self |-> self, raised |-> TRUE,
        error |-> "PatternTimeoutError", value |-> NoMatch]
  ELSE [self |-> self, raised |-> FALSE, error |-> "",
        value |-> EngineCall(self, method, repl, s)]

\* The patterns, subject strings and replacement of the method calls.
LiteralPatterns == UNION {TextsOver({"a", "B"}, n) : n \in 1..2}
SubjectStrings == UNION {TextsOver({"a", "A", "b"}, n) : n \in 0..MaxString}
Repl == <<"x">>

\* ------------------------------------------------- filter_changes
\* templates.CATEGORY_TO_SECTION, for the categories of the changes below.
CATEGORY_TO_SECTION == [c \in {"feature", "docs"} |-> IF c = "feature" THEN "features" ELSE "docs"]

\* Skipping the patterns that do not compile.
RECURSIVE compile_exclude_patterns_skipping(_, _)
compile_exclude_patterns_skipping(patterns, acc) ==
  IF patterns = <<>>
  THEN [raised |-> FALSE, error |-> "", compiled_patterns |-> acc, log |-> <<>>]
  ELSE LET r == safe_compile_pattern(Head(patterns), REGEX_TIMEOUT)
       IN compile_exclude_patterns_skipping(Tail(patterns),
                                            IF r.raised THEN acc ELSE Append(acc, r))

\* Lines 273-282: compile the exclude patterns in order; the first that
\* safe_compile_pattern rejects is logged and its error raised again.
RECURSIVE compile_exclude_patterns(_, _)
compile_exclude_patterns(patterns, acc) ==
  IF patterns = <<>>
  THEN [raised |-> FALSE, error |-> "", compiled_patterns |-> acc, log |-> <<>>]
  ELSE LET r == safe_compile_pattern(Head(patterns), REGEX_TIMEOUT)
       IN IF r.raised
          THEN [raised |-> TRUE, error |-> r.error, compiled_patterns |-> acc,
                log |-> << [fn |-> "logger.error", pattern |-> Head(patterns)] >>]
          ELSE compile_exclude_patterns(Tail(patterns), Append(acc, r))

RECURSIVE PatternLoop(_, _, _, _, _)
\* Lines 301-320 for change c from pattern k on, after n searches; the
\* search number timeout_at runs out of time.  PatternTimeoutError is not a
\* regex.TimeoutError, so the except clause of line 309 lets it through.
PatternLoop(cps, c, k, n, timeout_at) ==
  IF k > Len(cps)
  THEN [pattern_matched |-> FALSE, raised |-> FALSE, searches |-> n]
  ELSE LET r1 == TimeoutPatternCall(cps[k], "search", <<>>, c.title, timeout_at = n + 1)
           r2 == TimeoutPatternCall(cps[k], "search", <<>>, c.description, timeout_at = n + 2)
       IN IF r1.raised
          THEN [pattern_matched |-> FALSE, raised |-> TRUE, searches |-> n + 1]
          ELSE IF r1.value.kind = "Match"
          THEN [pattern_matched |-> TRUE, raised |-> FALSE, searches |-> n + 1]
          ELSE IF r2.raised
          THEN [pattern_matched |-> FALSE, raised |-> TRUE, searches |-> n + 2]
          ELSE IF r2.value.kind = "Match"
          THEN [pattern_matched |-> TRUE, raised |-> FALSE, searches |-> n + 2]
          ELSE PatternLoop(cps, c, k + 1, n + 2, timeout_at)

\* Lines 285-299: the category, label and author exclusions.
excluded(c, cfg) ==
  \/ c.category \in cfg.exclude_categories
  \/ c.labels \cap cfg.exclude_labels # {}
  \/ c.authors \cap cfg.exclude_authors # {}

RECURSIVE SectionChanges(_, _)
\* The changes of cs that belong to section, in order.
SectionChanges(cs, section) ==
  IF cs = <<>>
  THEN <<>>
  ELSE (IF CATEGORY_TO_SECTION[Head(cs).category] = section THEN << Head(cs) >> ELSE <<>>)
         \o SectionChanges(Tail(cs), section)

RECURSIVE apply_max_items_per_section(_, _, _)
\* _apply_max_items_per_section
apply_max_items_per_section(cs, sections, max_items) ==
  IF sections = <<>>
  THEN <<>>
  ELSE LET section_changes == SectionChanges(cs, Head(sections))
       IN SubSeq(section_changes, 1, Min(max_items, Len(section_changes)))
            \o apply_max_items_per_section(cs, Tail(sections), max_items)

\* The inputs of filter_changes.
FilterPatterns ==
  {<<"a">>, <<"B">>, <<"(", "a", "+", ")", "+">>, <<".", "*", ".", "*">>, <<"(">>}
RECURSIVE SeqsUpTo(_, _)
\* The sequences of at most n elements of S.
SeqsUpTo(S, n) ==
  IF n = 0 THEN {<<>>}
  ELSE SeqsUpTo(S, n - 1) \cup {Append(s, x) : s \in SeqsUpTo(S, n - 1), x \in S}
AudienceConfigs ==
  [exclude_patterns : SeqsUpTo(FilterPatterns, MaxPatterns),
   exclude_categories : {{}, {"docs"}},
   exclude_labels : {{}, {"skip"}},
   exclude_authors : {{}, {"bot"}},
   max_items_per_section : {<<>>, <<1>>},
   sections : {<< "features", "docs" >>}]
Changes ==
  {[title |-> <<"a">>, description |-> <<"b">>, category |-> "feature",
    labels |-> {}, authors |-> {}],
   [title |-> <<"b">>, description |-> <<>>, category |-> "docs",
    labels |-> {"skip"}, authors |-> {"bot"}],
   [title |-> <<"c">>, description |-> <<"A">>, category |-> "feature",
    labels |-> {}, authors |-> {"bot"}]}


\* ========================================================================
\* Changelog sections and truncation (content_scanner.py).  A changelog is
\* the sequence of its lines (content.split("\n"), so never empty); a line
\* is known by whether it starts with "#", by the section types whose
\* keywords it holds, and by the number of its words (\b\w+\b).
HeaderOf(kws) == [kind |-> "header", keywords |-> kws, words |-> 1]
BodyOf(n) == [kind |-> "text", keywords |-> {}, words |-> n]
\* "... (truncated)"
Marker == [kind |-> "marker", keywords |-> {}, words |-> 1]

RECURSIVE WordCount(_)
WordCount(ls) == IF ls = <<>> THEN 0 ELSE Head(ls).words + WordCount(Tail(ls))

\* estimate_tokens of the text made of the lines ls: int(len(words) * 1.3).
estimate_tokens(ls) == (13 * WordCount(ls)) \div 10

\* The keys of section_keywords, in the order of the dict.
section_keywords == << "breaking", "feature", "fix", "security" >>

\* Lines 375-380: the first section type with a keyword in the header.
detected(header) ==
  IF \E k \in 1..Len(section_keywords) : section_keywords[k] \in header.keywords
  THEN section_keywords[CHOOSE k \in 1..Len(section_keywords) :
                          /\ section_keywords[k] \in header.keywords
                          /\ \A j \in 1..(k - 1) : section_keywords[j] \notin header.keywords]
  ELSE "other"

\* d[k] = v
Put(d, k, v) == [x \in DOMAIN d \cup {k} |-> IF x = k THEN v ELSE d[x]]
EmptyDict == [x \in {} |-> <<>>]

RECURSIVE ParseLoop(_, _, _, _, _)
\* The loop of parse_changelog_sections from line i on, and the final save.
ParseLoop(ls, i, secs, current_section, current_content) ==
  IF i > Len(ls)
  THEN IF current_content # <<>> THEN Put(secs, current_section, current_content) ELSE secs
  ELSE IF ls[i].kind = "header"
  THEN ParseLoop(ls, i + 1,
                 IF current_content # <<>>
                 THEN Put(secs, current_section, current_content) ELSE secs,
                 detected(ls[i]), << ls[i] >>)
  ELSE ParseLoop(ls, i + 1, secs, current_section, Append(current_content, ls[i]))

\* parse_changelog_sections: section type -> the lines of its content.
parse_changelog_sections(ls) == ParseLoop(ls, 1, EmptyDict, "other", <<>>)

RECURSIVE TruncateLoop(_, _, _, _, _)
TruncateLoop(ls, i, kept, current_tokens, limit) ==
  IF i > Len(ls)
  THEN kept
  ELSE IF current_tokens + estimate_tokens(<< ls[i] >>) > limit
  THEN Append(kept, Marker)
  ELSE TruncateLoop(ls, i + 1, Append(kept, ls[i]),
                    current_tokens + estimate_tokens(<< ls[i] >>), limit)

\* truncate_section
truncate_section(section, limit) == TruncateLoop(section, 1, <<>>, 0, limit)

\* The sections by order of appearance of their types' names in the alphabet.
priority_order_alphabetical == << "breaking", "feature", "fix", "other", "security" >>
\* priority_order of truncate_for_context.
priority_order == << "breaking", "security", "feature", "fix", "other" >>

\* One element of result_parts, with the section it is from and whether
\* truncate_section made it.
Part(section_type, ls, cut) == [section |-> section_type, lines |-> ls, cut |-> cut]

RECURSIVE ContextLoop(_, _, _, _)
\* Lines 441-451 from entry k of priority_order on.
ContextLoop(secs, k, parts, remaining_tokens) ==
  IF k > Len(priority_order)
  THEN parts
  ELSE IF priority_order[k] \notin DOMAIN secs
  THEN ContextLoop(secs, k + 1, parts, remaining_tokens)
  ELSE IF estimate_tokens(secs[priority_order[k]]) <= remaining_tokens
  THEN ContextLoop(secs, k + 1,
                   Append(parts, Part(priority_order[k], secs[priority_order[k]], FALSE)),
                   remaining_tokens - estimate_tokens(secs[priority_order[k]]))
  ELSE Append(parts, Part(priority_order[k],
                          truncate_section(secs[priority_order[k]], remaining_tokens),
                          TRUE))

RECURSIVE JoinParts(_)
\* "\n\n".join(result_parts): the lines of the parts, an empty line between.
JoinParts(parts) ==
  IF parts = <<>> THEN << BodyOf(0) >>
  ELSE IF Len(parts) = 1 THEN parts[1].lines
  ELSE parts[1].lines \o << BodyOf(0) >> \o JoinParts(Tail(parts))

\* The lines a changelog is made of, and the changelogs.
ChangelogLines ==
  {HeaderOf(kws) : kws \in {{}, {"breaking"}, {"security"}, {"feature"}, {"fix"},
                            {"fix", "security"}}}
    \cup {BodyOf(n) : n \in {0, 1, 3}}
Changelogs == SeqsUpTo(ChangelogLines, MaxLines) \ {<<>>}

\* ========================================================================
\* Summarizing to a token budget (summarizing_map_reduce.py).
\* estimate_tokens of that module: len(text) // 4.
chars_estimate_tokens(text) == Len(text) \div 4

fits_budget(text, limit) == chars_estimate_tokens(text) <= limit

\* Truncation that leaves one token more than the budget.
hard_truncate_late(text, limit) == SubSeq(text, 1, Min(Len(text), limit * 4 + 4))

\* text[:max_tokens * 4], the truncation of lines 208-209, 244-247, 260-261.
hard_truncate(text, limit) == SubSeq(text, 1, Min(Len(text), limit * 4))

\* Position of the first element e of t, 0 when there is none.
FirstIndex(t, e) ==
  IF \E i \in 1..Len(t) : t[i] = e
  THEN CHOOSE i \in 1..Len(t) : t[i] = e /\ \A j \in 1..(i - 1) : t[j] # e
  ELSE 0

\* _extract_summary: a response is a text in which "<SUMMARY>" and
\* "</SUMMARY>" are one element each.
extract_summary(response) ==
  IF FirstIndex(response, "<SUMMARY>") # 0
  THEN LET summary == SubSeq(response, FirstIndex(response, "<SUMMARY>") + 1, Len(response))
       IN IF FirstIndex(summary, "</SUMMARY>") # 0
          THEN strip(SubSeq(summary, 1, FirstIndex(summary, "</SUMMARY>") - 1))
          ELSE strip(summary)
  ELSE strip(response)

\* n times "a".
Letters(n) == [i \in 1..n |-> "a"]

\* What llm_caller may answer to a map or a reduce prompt: nothing, a short
\* tagged summary, and untagged and tagged text over every budget.
SummaryResponses ==
  {<<>>,
   <<" ", "<SUMMARY>", " ", "a", "a", " ", "</SUMMARY>", "a">>,
   Letters(4 * MaxSummaryBudget + 5) \o <<" ">>,
   <<"<SUMMARY>">> \o Letters(4 * MaxSummaryBudget + 4)}
SummaryOutcomes == {Raised} \cup {Returned(r) : r \in SummaryResponses}

\* The contents to summarize: letters with at most one space among them.
SummaryContents ==
  {t \in UNION {TextsOver({"a", " "}, n) : n \in 0..MaxContent} :
     Cardinality({i \in 1..Len(t) : t[i] = " "}) <= 1}

\* SummarizeResult
SummarizeResult(text, was_summarized, original_tokens, final_tokens, warns) ==
  [content |-> text, was_summarized |-> was_summarized,
   original_tokens |-> original_tokens, final_tokens |-> final_tokens,
   warnings |-> warns]

\* Lines 204-219 and 256-271: a summary and its truncation when it does not
\* fit.
Summarized(summary, limit, original_tokens, warns, warning) ==
  IF fits_budget(summary, limit)
  THEN SummarizeResult(summary, TRUE, original_tokens,
                       chars_estimate_tokens(summary), warns)
  ELSE SummarizeResult(hard_truncate(summary, limit), TRUE, original_tokens,
                       limit, Append(warns, warning))

\* ------------------------------------------------ call_llm_with_retry
\* t in s
contains(s, t) == FindSep(s, t, 1) # 0

\* str.lower() on the letters the messages below hold in upper case.
error_lower(c) ==
  IF c = "L" THEN "l" ELSE IF c = "M" THEN "m" ELSE lower(c)
\* str(e).lower(), line 227
error_str(e) == [i \in 1..Len(e) |-> error_lower(e[i])]

\* The messages of the exceptions of litellm.completion.
RateLimit429 == <<"4", "2", "9">>
RateLimited == <<"r", "a", "t", "e", " ", "l", "i", "m", "i", "t">>
ServerError500 == <<"5", "0", "0">>
BadGateway502 == <<"5", "0", "2">>
Unavailable503 == <<"5", "0", "3">>
Unauthorized401 == <<"4", "0", "1">>
Forbidden403 == <<"4", "0", "3">>
AuthenticationError == <<"A", "u", "t", "h", "e", "n", "t", "i", "c", "a", "t", "i", "o", "n">>
GenerateError == <<"g", "e", "n", "e", "r", "a", "t", "e">>
ConnectionError == <<"r", "e", "f", "u", "s", "e", "d">>
\* Line 202: RuntimeError("LLM returned empty response")
EmptyResponse == <<"L", "L", "M", " ", "r", "e", "t", "u", "r", "n", "e", "d", " ", "e", "m", "p", "t", "y", " ", "r", "e", "s", "p", "o", "n", "s", "e">>
ProviderErrors ==
  {RateLimit429, RateLimited, ServerError500, BadGateway502, Unavailable503,
   Unauthorized401, Forbidden403, AuthenticationError, GenerateError,
   ConnectionError}

\* What litellm.completion does in one call: it raises, or it returns a
\* response with the content given.
Completions ==
  {[raised |-> TRUE, content |-> <<>>, error |-> e] : e \in ProviderErrors}
  \cup {[raised |-> FALSE, content |-> c, error |-> <<>>] : c \in {<<>>, <<"o", "k">>}}

\* The exception the try block of lines 188-222 ends with, <<>> if none.
caught(o) ==
  IF o.raised THEN o.error
  ELSE IF o.content = <<>> THEN EmptyResponse
  ELSE <<>>

\* Line 230
is_auth_error(e) ==
  \/ contains(error_str(e), <<"4", "0", "1">>)
  \/ contains(error_str(e), <<"4", "0", "3">>)
  \/ contains(error_str(e), <<"a", "u", "t", "h", "e", "n", "t", "i", "c", "a", "t", "i", "o", "n">>)
\* Line 235
is_rate_limit(e) ==
  \/ contains(error_str(e), <<"4", "2", "9">>)
  \/ contains(error_str(e), <<"r", "a", "t", "e">>)
\* Line 240
is_server_error(e) ==
  \/ contains(error_str(e), <<"5", "0", "0">>)
  \/ contains(error_str(e), <<"5", "0", "2">>)
  \/ contains(error_str(e), <<"5", "0", "3">>)

\* Lines 234-244: the error of attempt number attempt (from 0) is retried.
retried(e, retries, a) ==
  /\ ~is_auth_error(e)
  /\ a < retries - 1
  /\ is_rate_limit(e) \/ is_server_error(e)

\* ------------------------------------------------------- AggregateUsage
\* The tracker: total_calls and, per model, calls.  The token and latency
\* sums are updated by the same statements as the two counters.
NoUsage == [total_calls |-> 0, models |-> [m \in {} |-> 0]]
\* self.models[m] = {..., "calls": v}
SetModel(u, m, v) ==
  [u EXCEPT !.models = [k \in DOMAIN u.models \cup {m} |-> IF k = m THEN v ELSE u.models[k]]]
\* AggregateUsage.add run by one thread with no other thread in it.
add(u, m) ==
  LET counted == [u EXCEPT !.total_calls = u.total_calls + 1]
      known == IF m \in DOMAIN counted.models THEN counted ELSE SetModel(counted, m, 0)
  IN SetModel(known, m, known.models[m] + 1)
\* _usage when a function of analyze.py is entered: nothing yet, or the
\* calls of an earlier phase.
UsagesBefore == {NoUsage, add(NoUsage, "model")}

\* ------------------------------------------------------ sanitize_content
\* The regular expressions of SANITIZATION_PATTERNS are sequences of
\* pieces; a piece is one of
\*   bol    ^ under re.MULTILINE: the start of the text or of a line
\*   ws0    \s*, ws1  \s+
\*   lit    an alternation of literals, (a|b|c)
\*   opt    (...)? around the pieces of inner
\*   class1 [a-z_]+
Bol == [kind |-> "bol", words |-> <<>>, inner |-> <<>>]
Ws0 == [kind |-> "ws0", words |-> <<>>, inner |-> <<>>]
Ws1 == [kind |-> "ws1", words |-> <<>>, inner |-> <<>>]
Lit(ws) == [kind |-> "lit", words |-> ws, inner |-> <<>>]
Opt(ps) == [kind |-> "opt", words |-> <<>>, inner |-> ps]
Class1 == [kind |-> "class1", words |-> <<>>, inner |-> <<>>]

UpperCase == <<"A", "B", "C", "D", "E", "F", "G", "H", "I", "J", "K", "L", "M", "N", "O", "P", "Q", "R", "S", "T", "U", "V", "W", "X", "Y", "Z">>
LowerCase == <<"a", "b", "c", "d", "e", "f", "g", "h", "i", "j", "k", "l", "m", "n", "o", "p", "q", "r", "s", "t", "u", "v", "w", "x", "y", "z">>
\* The letter as (?i) compares it.
casefold(c) ==
  IF \E k \in 1..Len(UpperCase) : UpperCase[k] = c
  THEN LowerCase[CHOOSE k \in 1..Len(UpperCase) : UpperCase[k] = c]
  ELSE c
\* [a-z_]
LowerOrUnderscore == Range(LowerCase) \cup {"_"}

\* The literal w is at position i of text.
LitAt(text, i, w, ignorecase) ==
  /\ i + Len(w) - 1 <= Len(text)
  /\ \A k \in 1..Len(w) :
       IF ignorecase THEN casefold(text[i + k - 1]) = casefold(w[k])
       ELSE text[i + k - 1] = w[k]

\* The position after the longest run of characters of cs from position i.
RunEnd(text, i, cs) ==
  CHOOSE e \in i..(Len(text) + 1) :
    /\ \A k \in i..(e - 1) : text[k] \in cs
    /\ e = Len(text) + 1 \/ text[e] \notin cs

RECURSIVE PiecesMatch(_, _, _, _)
\* The position after the match of the pieces at position i of text, 0 when
\* they do not match there.  A run is taken whole: what follows \s and
\* [a-z_] in these patterns never starts with a character of the run; and
\* no literal of an alternation is the start of another one, so at most one
\* of them is at position i.
PiecesMatch(ps, text, i, ignorecase) ==
  IF ps = <<>> THEN i
  ELSE LET p == Head(ps)
           rest == Tail(ps)
       IN CASE p.kind = "bol" ->
                 IF i = 1 \/ text[i - 1] = "\n"
                 THEN PiecesMatch(rest, text, i, ignorecase) ELSE 0
            [] p.kind = "ws0" ->
                 PiecesMatch(rest, text, RunEnd(text, i, Whitespace), ignorecase)
            [] p.kind = "ws1" ->
                 IF RunEnd(text, i, Whitespace) = i THEN 0
                 ELSE PiecesMatch(rest, text, RunEnd(text, i, Whitespace), ignorecase)
            [] p.kind = "class1" ->
                 IF RunEnd(text, i, LowerOrUnderscore) = i THEN 0
                 ELSE PiecesMatch(rest, text, RunEnd(text, i, LowerOrUnderscore), ignorecase)
            [] p.kind = "lit" ->
                 LET ends == {PiecesMatch(rest, text, i + Len(p.words[k]), ignorecase) :
                                k \in {k \in 1..Len(p.words) :
                                         LitAt(text, i, p.words[k], ignorecase)}} \ {0}
                 IN IF ends = {} THEN 0 ELSE CHOOSE e \in ends : \A f \in ends : e <= f
            [] p.kind = "opt" ->
                 IF PiecesMatch(p.inner \o rest, text, i, ignorecase) # 0
                 THEN PiecesMatch(p.inner \o rest, text, i, ignorecase)
                 ELSE PiecesMatch(rest, text, i, ignorecase)

\* content_scanner.py, lines 92-106.
RolePrefix ==
  <<Bol, Ws0, Lit(<<<<"H", "u", "m", "a", "n">>, <<"A", "s", "s", "i", "s", "t", "a", "n", "t">>, <<"S", "y", "s", "t", "e", "m">>, <<"U", "s", "e", "r">>, <<"A", "I">>>>), Lit(<<<<":">>>>), Ws0>>
Precedence == Lit(<<<<"p", "r", "e", "v", "i", "o", "u", "s">>, <<"p", "r", "i", "o", "r">>, <<"a", "b", "o", "v", "e">>>>)
AllOpt == Opt(<<Lit(<<<<"a", "l", "l">>>>), Ws1>>)
IgnoreInstructions ==
  <<Lit(<<<<"i", "g", "n", "o", "r", "e">>>>), Ws1, AllOpt, Precedence, Ws1,
    Lit(<<<<"i", "n", "s", "t", "r", "u", "c", "t", "i", "o", "n">>>>), Opt(<<Lit(<<<<"s">>>>)>>)>>
Disregard == <<Lit(<<<<"d", "i", "s", "r", "e", "g", "a", "r", "d">>>>), Ws1, AllOpt, Precedence>>
Forget == <<Lit(<<<<"f", "o", "r", "g", "e", "t">>>>), Ws1, AllOpt, Precedence>>
DelimiterTag ==
  <<Lit(<<<<"<">>>>), Opt(<<Lit(<<<<"/">>>>)>>),
    Lit(<<<<"s", "y", "s", "t", "e", "m">>, <<"u", "s", "e", "r">>, <<"a", "s", "s", "i", "s", "t", "a", "n", "t">>, <<"p", "r", "o", "m", "p", "t">>, <<"i", "n", "s", "t", "r", "u", "c", "t", "i", "o", "n">>>>), Lit(<<<<">">>>>)>>
InstMarker == <<Lit(<<<<"[">>>>), Opt(<<Lit(<<<<"/">>>>)>>), Lit(<<<<"I", "N", "S", "T", "]">>>>)>>
SpecialToken == <<Lit(<<<<"<", "|">>>>), Class1, Lit(<<<<"|", ">">>>>)>>
SysMarker == <<Lit(<<<<"<", "<", "S", "Y", "S", ">", ">">>, <<"<", "<", "/", "S", "Y", "S", ">", ">">>>>)>>
TextToken == <<Lit(<<<<"<", "|">>>>), Lit(<<<<"b", "e", "g", "i", "n">>, <<"e", "n", "d">>>>), Lit(<<<<"_", "o", "f", "_", "t", "e", "x", "t", "|", ">">>>>)>>
SANITIZATION_PATTERNS ==
  <<[pieces |-> RolePrefix, ignorecase |-> FALSE],
    [pieces |-> IgnoreInstructions, ignorecase |-> TRUE],
    [pieces |-> Disregard, ignorecase |-> TRUE],
    [pieces |-> Forget, ignorecase |-> TRUE],
    [pieces |-> DelimiterTag, ignorecase |-> FALSE],
    [pieces |-> InstMarker, ignorecase |-> FALSE],
    [pieces |-> SpecialToken, ignorecase |-> FALSE],
    [pieces |-> SysMarker, ignorecase |-> FALSE],
    [pieces |-> TextToken, ignorecase |-> FALSE]>>

\* re.search(pattern, text) finds a match.
re_search(pattern, text) ==
  \E i \in 1..Len(text) : PiecesMatch(pattern.pieces, text, i, pattern.ignorecase) # 0

RECURSIVE re_sub_from(_, _, _)
\* re.sub(pattern, "", text) from position i on: the matches from left to
\* right, none overlapping another, each found in the text as it was given.
re_sub_from(pattern, text, i) ==
  IF i > Len(text) THEN <<>>
  ELSE LET e == PiecesMatch(pattern.pieces, text, i, pattern.ignorecase)
       IN IF e > i THEN re_sub_from(pattern, text, e)
          ELSE <<text[i]>> \o re_sub_from(pattern, text, i + 1)
re_sub(pattern, text) == re_sub_from(pattern, text, 1)

RECURSIVE SanitizeLoop(_, _)
\* Lines 502-505: the patterns from number k on, one re.sub each, in turn.
SanitizeLoop(k, sanitized) ==
  IF k > Len(SANITIZATION_PATTERNS) THEN sanitized
  ELSE SanitizeLoop(k + 1, re_sub(SANITIZATION_PATTERNS[k], sanitized))

RECURSIVE collapse_newlines(_, _)
\* Line 508: re.sub(r"\n{3,}", "\n\n", text) from position i on.
collapse_newlines(text, i) ==
  IF i > Len(text) THEN <<>>
  ELSE IF RunEnd(text, i, {"\n"}) >= i + 3
  THEN <<"\n", "\n">> \o collapse_newlines(text, RunEnd(text, i, {"\n"}))
  ELSE <<text[i]>> \o collapse_newlines(text, i + 1)

\* sanitize_content, lines 486-510.
sanitize_content(text) == strip(collapse_newlines(SanitizeLoop(1, text), 1))

\* The pieces the contents given to sanitize_content are made of.
Fragments ==
  {<<"[", "I", "N", "S", "T", "]">>, <<"[", "I", "N">>, <<"S", "T", "]">>, <<"A", "I", ":">>, <<"\n">>, <<" ">>, <<"a">>, <<"<", "|", "a", "|", ">">>, <<"<", "/", "u", "s", "e", "r", ">">>, <<"<", "<", "S", "Y", "S", ">", ">">>, <<"F", "o", "r", "g", "e", "t", " ", "a", "b", "o", "v", "e">>, <<"i", "g", "n", "o", "r", "e", " ", "a", "l", "l", " ", "p", "r", "i", "o", "r", " ", "i", "n", "s", "t", "r", "u", "c", "t", "i", "o", "n", "s">>}
SanitizeContents == {Concat(fs) : fs \in SeqsUpTo(Fragments, MaxFragments)}

VARIABLES
  pc,                \* where process_large_input stands
  content,           \* arguments of the call
  chunk_size,
  chunk_overlap,
  max_workers,
  chunks,            \* chunk_with_overlap(content, ...)
  pool,              \* worker threads of the executor, 0 when there is none
  futures,           \* future_to_chunk: chunk index -> the chunk's task
  all_changes,
  change_id_counter,
  reduce_response,   \* the reducer's answer inside reduce_changes
  reduced_changes,
  flatten_response,  \* the reducer's answer inside flatten_changes_to_list
  result,            \* the returned list
  warnings,          \* the "Warning:" lines printed so far
  reducer_calls      \* invocations of the reducer function

VARIABLES
  entry,             \* the function called: main, run_phase1, handle_scan_result
  analyze_pc,        \* where that call stands
  content_override,  \* INPUT_CONTENT_OVERRIDE, or run_phase1's argument
  inputs,            \* what else main finds in its environment
  logger,            \* handle_scan_result's logger argument
  phase1_content,    \* run_phase1's content_override
  scan_pc,           \* where scan_content_override stands
  issues,            \* its locals
  threat_level,
  token_estimate,
  truncated,
  scan_result,       \* the ScanResult returned or handed in
  errors,            \* validate_inputs' errors
  printed,           \* lines written by handle_scan_result
  raised_error,      \* the ValueError of handle_scan_result
  prompt,            \* run_phase1's prompt
  llm_prompts        \* the prompts given to call_llm_with_retry, in order

VARIABLES
  regex_pc,          \* where safe_compile_pattern and the wrapper's user stand
  pattern,           \* arguments of safe_compile_pattern
  timeout,
  compiled,          \* the TimeoutPattern returned, or the error raised
  last_call,         \* the latest call of a method of the wrapper
  calls,             \* how many such calls were made
  earlier_timeout,   \* a call before the latest one timed out
  filter_pc,         \* where filter_changes stands
  config,            \* its arguments
  change_list,
  compiled_patterns, \* its locals
  change_index,
  filtered,
  searches,          \* pattern.search calls made so far
  filter_log,        \* logger lines
  filter_result      \* what the call returned or raised

VARIABLES
  trunc_pc,          \* where truncate_for_context stands
  changelog,         \* its content argument, by lines
  max_tokens,
  parsed_sections,   \* parse_changelog_sections(content)
  result_parts,
  truncated_content  \* the returned text, by lines

trunc_vars ==
  <<trunc_pc, changelog, max_tokens, parsed_sections, result_parts, truncated_content>>
VARIABLES
  summ_pc,            \* where summarize_to_budget stands
  document,           \* its content argument
  summary_budget,     \* its max_tokens argument
  summarizer,         \* self: chunk_size, chunk_overlap
  summ_chunks,        \* chunks
  results,            \* results, by chunk: not yet set, or a summary
  summ_warnings,      \* warnings
  summ_calls,         \* calls of llm_caller
  summ_result         \* the SummarizeResult returned

summ_vars ==
  <<summ_pc, document, summary_budget, summarizer, summ_chunks, results,
    summ_warnings, summ_calls, summ_result>>

VARIABLES
  \* call_llm_with_retry
  retry_pc,        \* "idle", "calling", "returned", "raised"
  max_retries,     \* its argument
  attempt,         \* the loop variable, from 0
  provider_log,    \* what litellm.completion did, call by call
  sleeps,          \* the arguments of time.sleep
  retry_raised,    \* the RuntimeError raised: "", "auth", "failed"
  \* the module global _usage, and run_phase2
  usage,           \* _usage
  usage_before,    \* _usage when the function was entered
  phase2_pc,       \* "idle", "pool", "returned"
  task_pc,         \* per task, the statement of AggregateUsage.add it is at
  task_read        \* per task, the value it read and has not written back

retry_vars == <<retry_pc, max_retries, attempt, provider_log, sleeps, retry_raised>>
phase2_vars == <<phase2_pc, task_pc, task_read>>
analyze_vars == <<retry_vars, phase2_vars, usage, usage_before>>

VARIABLES
  \* sanitize_content
  san_pc,          \* "idle", "sanitize_content", "returned"
  san_content,     \* its argument
  san_result       \* what it returned

san_vars == <<san_pc, san_content, san_result>>

tools_vars == <<trunc_vars, summ_vars, analyze_vars, san_vars>>

compile_vars == <<regex_pc, pattern, timeout, compiled, last_call, calls, earlier_timeout>>
filter_vars ==
  <<filter_pc, config, change_list, compiled_patterns, change_index, filtered,
    searches, filter_log, filter_result>>
regex_vars == <<compile_vars, filter_vars>>

process_vars ==
  <<pc, content, chunk_size, chunk_overlap, max_workers, chunks, pool,
    futures, all_changes, change_id_counter, reduce_response,
    reduced_changes, flatten_response, result, warnings, reducer_calls>>

caller_vars ==
  <<entry, analyze_pc, content_override, inputs, logger, phase1_content,
    errors, printed, raised_error, prompt, llm_prompts>>
scanner_vars ==
  <<scan_pc, issues, threat_level, token_estimate, truncated, scan_result>>
scan_vars == <<caller_vars, scanner_vars>>

vars == <<process_vars, scan_vars, regex_vars, tools_vars>>

other_than_process == <<scan_vars, regex_vars, tools_vars>>
other_than_scan == <<process_vars, regex_vars, tools_vars>>
other_than_regex == <<process_vars, scan_vars, tools_vars>>

args == <<content, chunk_size, chunk_overlap, max_workers>>
map_vars == <<pool, futures, all_changes, change_id_counter>>
reduce_vars == <<reduce_response, reduced_changes, flatten_response, reducer_calls>>

\* Nothing of the scanner or its callers is running.
ScanIdle ==
  /\ entry = "none"
  /\ analyze_pc = "idle"
  /\ content_override = NoContent
  /\ inputs = [other_errors |-> FALSE, has_version |-> FALSE, commits |-> FALSE]
  /\ logger = "None"
  /\ phase1_content = NoContent
  /\ scan_pc = "idle"
  /\ issues = <<>>
  /\ threat_level = "NONE"
  /\ token_estimate = 0
  /\ truncated = FALSE
  /\ scan_result = NoResult
  /\ errors = <<>>
  /\ printed = <<>>
  /\ raised_error = NoError
  /\ prompt = NoPrompt
  /\ llm_prompts = <<>>

\* The map, reduce and flatten phases are not running.
PipelineIdle ==
  /\ max_workers = 0
  /\ pool = 0
  /\ futures = <<>>
  /\ all_changes = <<>>
  /\ change_id_counter = 1
  /\ reduce_response = NoCall
  /\ reduced_changes = <<>>
  /\ flatten_response = NoCall
  /\ result = <<>>
  /\ warnings = <<>>
  /\ reducer_calls = 0

\* process_large_input is not running.
ProcessIdle ==
  /\ pc = "idle"
  /\ content = <<>>
  /\ chunk_size = 0
  /\ chunk_overlap = 0
  /\ chunks = <<>>
  /\ PipelineIdle

\* No pattern was compiled and no method of a TimeoutPattern called.
NotCompiled == [raised |-> FALSE, pattern |-> <<>>, flags |-> "", timeout |-> 0]
NotCalled ==
  [method |-> "", string |-> <<>>, timed_out |-> FALSE, raised |-> FALSE,
   error |-> "", value |-> NoMatch]
CompileIdle ==
  /\ compiled = NotCompiled
  /\ last_call = NotCalled
  /\ calls = 0
  /\ earlier_timeout = FALSE

\* filter_changes is not running.
NoConfig ==
  [exclude_patterns |-> <<>>, exclude_categories |-> {}, exclude_labels |-> {},
   exclude_authors |-> {}, max_items_per_section |-> <<>>, sections |-> <<>>]
NotReturned == [raised |-> FALSE, error |-> "", returned |-> FALSE]
FilterLocalsInit ==
  /\ compiled_patterns = <<>>
  /\ change_index = 1
  /\ filtered = <<>>
  /\ searches = 0
  /\ filter_log = <<>>
  /\ filter_result = NotReturned
FilterIdle ==
  /\ filter_pc = "idle"
  /\ config = NoConfig
  /\ change_list = <<>>
  /\ FilterLocalsInit

\* Nothing of input_validation or filter_changes is running.
RegexIdle ==
  /\ regex_pc = "idle"
  /\ pattern = <<>>
  /\ timeout = 0
  /\ CompileIdle
  /\ FilterIdle

\* truncate_for_context is not running.
TruncLocalsInit ==
  /\ parsed_sections = EmptyDict
  /\ result_parts = <<>>
  /\ truncated_content = <<>>
TruncIdle ==
  /\ trunc_pc = "idle"
  /\ changelog = <<>>
  /\ max_tokens = 0
  /\ TruncLocalsInit

\* summarize_to_budget is not running.
NotSummarized == SummarizeResult(<<>>, FALSE, 0, 0, <<>>)
SummLocalsInit ==
  /\ summ_chunks = <<>>
  /\ results = <<>>
  /\ summ_warnings = <<>>
  /\ summ_calls = 0
  /\ summ_result = NotSummarized
SummIdle ==
  /\ summ_pc = "idle"
  /\ document = <<>>
  /\ summary_budget = 0
  /\ summarizer = [chunk_size |-> 0, chunk_overlap |-> 0]
  /\ SummLocalsInit

\* call_llm_with_retry is not running.
RetryLocalsInit ==
  /\ attempt = 0
  /\ provider_log = <<>>
  /\ sleeps = <<>>
  /\ retry_raised = ""
RetryIdle ==
  /\ retry_pc = "idle"
  /\ max_retries = 0
  /\ RetryLocalsInit
\* run_phase2 is not running.
Phase2Idle ==
  /\ phase2_pc = "idle"
  /\ task_pc = <<>>
  /\ task_read = <<>>
AnalyzeIdle ==
  /\ RetryIdle
  /\ Phase2Idle
  /\ usage = NoUsage
  /\ usage_before = NoUsage

\* sanitize_content is not running.
SanIdle ==
  /\ san_pc = "idle"
  /\ san_content = <<>>
  /\ san_result = <<>>

\* None of the functions below is running.
ToolsIdle == TruncIdle /\ SummIdle /\ AnalyzeIdle /\ SanIdle

Init ==
  /\ pc = "start"
  /\ content \in Texts
  /\ chunk_size \in 1..MaxChunkSize
  /\ chunk_overlap \in 0..MaxOverlap
  /\ max_workers \in 1..MaxWorkers
  /\ Len(chunk_with_overlap(content, chunk_size, chunk_overlap)) <= MaxChunks
  /\ chunks = <<>>
  /\ pool = 0
  /\ futures = <<>>
  /\ all_changes = <<>>
  /\ change_id_counter = 1
  /\ reduce_response = NoCall
  /\ reduced_changes = <<>>
  /\ flatten_response = NoCall
  /\ result = <<>>
  /\ warnings = <<>>
  /\ reducer_calls = 0
  /\ ScanIdle
  /\ RegexIdle
  /\ ToolsIdle

\* Lines 294-302: the two early returns, else on to the map phase.
CheckChunking ==
  /\ pc = "start"
  /\ IF ~needs_chunking(content, chunk_size)
     THEN /\ pc' = "done"
          /\ chunks' = chunks
     ELSE /\ chunks' = chunk_with_overlap(content, chunk_size, chunk_overlap)
          /\ pc' = IF single_chunk(chunks') THEN "done" ELSE "submit"
  /\ result' = <<>>
  /\ UNCHANGED <<args, map_vars, reduce_vars, warnings>>
  /\ UNCHANGED other_than_process

\* Lines 308-312: the executor is created and one task per chunk submitted.
\* content, chunks and the chunking arguments are not read after this point
\* (each task owns its chunk); they leave the state here, so that calls with
\* the same number of chunks share their map phase.
Submit ==
  /\ pc = "submit"
  /\ pool' = Min(Len(chunks), max_workers)
  /\ futures' = [i \in 0..(Len(chunks) - 1) |->
                   [state |-> "queued", raised |-> FALSE, response |-> <<>>,
                    llm_calls |-> 0]]
  /\ content' = <<>>
  /\ chunks' = <<>>
  /\ chunk_size' = 0
  /\ chunk_overlap' = 0
  /\ max_workers' = 0
  /\ pc' = "map"
  /\ UNCHANGED <<all_changes, change_id_counter, reduce_vars, result, warnings>>
  /\ UNCHANGED other_than_process

Running == {i \in DOMAIN futures : futures[i].state = "running"}

\* A free worker thread takes the next task of the executor's queue.
StartTask(i) ==
  /\ pc = "map"
  /\ futures[i].state = "queued"
  /\ \A j \in DOMAIN futures : j < i => futures[j].state # "queued"
  /\ Cardinality(Running) < pool
  /\ futures' = [futures EXCEPT ![i].state = "running"]
  /\ UNCHANGED <<pc, args, chunks, pool, all_changes, change_id_counter,
                 reduce_vars, result, warnings>>
  /\ UNCHANGED other_than_process

\* The task calls llm_caller again when its first call raised or returned a
\* response that validate_response flags.
FinishTask_retrying(i, o) ==
  /\ pc = "map"
  /\ futures[i].state = "running"
  /\ futures' = [futures EXCEPT ![i] =
                   [state |-> IF /\ @.llm_calls = 0
                                 /\ (o.raised \/ validate_response(o.response) # <<>>)
                              THEN "running" ELSE "finished",
                    raised |-> o.raised,
                    response |-> o.response, llm_calls |-> @.llm_calls + 1]]
  /\ warnings' = IF ~o.raised /\ validate_response(o.response) # <<>>
                 THEN Append(warnings, suspicious_map_warning)
                 ELSE warnings
  /\ UNCHANGED <<pc, args, chunks, pool, all_changes, change_id_counter,
                 reduce_vars, result>>
  /\ UNCHANGED other_than_process

\* extract_changes_from_chunk in a worker thread (lines 189-215): one call of
\* llm_caller, which raises or returns; a returned response is validated
\* (findings are only printed) and the future resolves.
FinishTask(i, o) ==
  /\ pc = "map"
  /\ futures[i].state = "running"
  /\ futures' = [futures EXCEPT ![i] =
                   [state |-> "finished", raised |-> o.raised,
                    response |-> o.response, llm_calls |-> @.llm_calls + 1]]
  /\ warnings' = IF ~o.raised /\ validate_response(o.response) # <<>>
                 THEN Append(warnings, suspicious_map_warning)
                 ELSE warnings
  /\ UNCHANGED <<pc, args, chunks, pool, all_changes, change_id_counter,
                 reduce_vars, result>>
  /\ UNCHANGED other_than_process

\* One round of the as_completed loop (lines 314-325) for a resolved future.
Collect(i) ==
  /\ pc = "map"
  /\ futures[i].state = "finished"
  /\ futures' = [futures EXCEPT ![i].state = "collected"]
  /\ IF futures[i].raised
     THEN /\ warnings' = Append(warnings, chunk_failed_warning(i))
          /\ UNCHANGED <<all_changes, change_id_counter>>
     ELSE LET chunk_changes ==
                AssignIds(extract_changes_from_response(futures[i].response),
                          change_id_counter)
          IN /\ all_changes' = extend(all_changes, chunk_changes)
             /\ change_id_counter' = change_id_counter + Len(chunk_changes)
             /\ UNCHANGED warnings
  /\ UNCHANGED <<pc, args, chunks, pool, reduce_vars, result>>
  /\ UNCHANGED other_than_process

AllCollected == \A i \in DOMAIN futures : futures[i].state = "collected"

\* The executor is left and lines 327-328 run.
EndMap ==
  /\ pc = "map"
  /\ AllCollected
  /\ pool' = 0
  /\ pc' = IF all_changes = <<>> THEN "done" ELSE "reduce"
  /\ result' = <<>>
  /\ UNCHANGED <<args, chunks, futures, all_changes, change_id_counter,
                 reduce_vars, warnings>>
  /\ UNCHANGED other_than_process

\* Line 332 when reduce_changes returns without a call (lines 231-236).
ReduceSkip ==
  /\ pc = "reduce"
  /\ reduce_skipped(all_changes)
  /\ reduced_changes' = all_changes
  /\ pc' = IF reduced_changes' = <<>> THEN "done" ELSE "flatten"
  /\ UNCHANGED <<args, chunks, map_vars, reduce_response, flatten_response,
                 reducer_calls, result, warnings>>
  /\ UNCHANGED other_than_process

\* Line 332 when reduce_changes calls the reducer (lines 238-266), then
\* lines 334-335.
ReduceCall(o) ==
  /\ pc = "reduce"
  /\ ~reduce_skipped(all_changes)
  /\ reducer_calls' = reducer_calls + 1
  /\ reduce_response' = Called(o)
  /\ IF o.raised
     THEN /\ pc' = "raised"
          /\ UNCHANGED <<reduced_changes, warnings>>
     ELSE LET reduced == extract_changes_from_response(o.response)
              w1 == IF validate_response(o.response) # <<>>
                    THEN Append(warnings, suspicious_reduce_warning)
                    ELSE warnings
          IN /\ IF reduced = <<>> /\ all_changes # <<>>
                THEN /\ warnings' = Append(w1, reduce_fallback_warning)
                     /\ reduced_changes' = reduce_fallback(all_changes)
                ELSE /\ warnings' = w1
                     /\ reduced_changes' = reduced
             /\ pc' = IF reduced_changes' = <<>> THEN "done" ELSE "flatten"
  /\ UNCHANGED <<args, chunks, map_vars, flatten_response, result>>
  /\ UNCHANGED other_than_process

\* Lines 337-355: flatten_changes_to_list (flatten.py lines 177-182) with the
\* reducer, the choice of the final list and the final ids.  The text of
\* _changes_to_text is never blank for a non-empty list (every line of it
\* starts with "["), so the call is always made here.
Flatten(o) ==
  /\ pc = "flatten"
  /\ reducer_calls' = reducer_calls + 1
  /\ flatten_response' = Called(o)
  /\ IF o.raised
     THEN /\ pc' = "raised"
          /\ UNCHANGED result
     ELSE /\ result' = AssignIds(final_changes(parse_flattened_changes(o.response),
                                               reduced_changes), 1)
          /\ pc' = "done"
  /\ UNCHANGED <<args, chunks, map_vars, reduce_response, reduced_changes, warnings>>
  /\ UNCHANGED other_than_process

Next ==
  \/ CheckChunking
  \/ Submit
  \/ \E i \in DOMAIN futures : StartTask(i)
  \/ \E i \in DOMAIN futures : \E o \in MapOutcomes : FinishTask(i, o)
  \/ \E i \in DOMAIN futures : Collect(i)
  \/ EndMap
  \/ ReduceSkip
  \/ \E o \in ReducerOutcomes : ReduceCall(o)
  \/ \E o \in ReducerOutcomes : Flatten(o)

Spec == Init /\ [][Next]_vars

\* ------------------------------------------- scanner and callers: actions
ScanInit ==
  /\ entry \in {"main", "run_phase1", "handle_scan_result"}
  /\ analyze_pc = entry
  /\ IF entry = "handle_scan_result"
     THEN /\ content_override = NoContent
          /\ scan_result \in ScanResults
          /\ logger \in {"None", "logger"}
     ELSE /\ content_override \in ContentOverrides
          /\ scan_result = NoResult
          /\ logger = "None"
  /\ IF entry = "main"
     THEN inputs \in [other_errors : BOOLEAN, has_version : BOOLEAN,
                      commits : BOOLEAN]
     ELSE inputs = [other_errors |-> FALSE, has_version |-> FALSE,
                    commits |-> FALSE]
  /\ phase1_content = (IF entry = "run_phase1" THEN content_override ELSE NoContent)
  /\ scan_pc = "idle"
  /\ issues = <<>>
  /\ threat_level = "NONE"
  /\ token_estimate = 0
  /\ truncated = FALSE
  /\ errors = <<>>
  /\ printed = <<>>
  /\ raised_error = NoError
  /\ prompt = NoPrompt
  /\ llm_prompts = <<>>
  /\ ProcessIdle
  /\ RegexIdle
  /\ ToolsIdle

\* The call of scan_content_override and its lines 279-280.
CallScan ==
  /\ scan_pc' = "size"
  /\ issues' = <<>>
  /\ threat_level' = "NONE"
  /\ token_estimate' = 0
  /\ truncated' = FALSE
  /\ scan_result' = NoResult

\* The content being scanned: validate_inputs and run_phase1 both pass the
\* content_override they were given.
Scanned == IF analyze_pc = "phase1_scan" THEN phase1_content ELSE content_override

\* Lines 283-291: the hard size limit, then estimate_tokens.
ScanSize ==
  /\ scan_pc = "size"
  /\ IF Scanned.len > MAX_CONTENT_SIZE
     THEN /\ scan_result' = ScanResult("CRITICAL", << "size" >>, 0, FALSE)
          /\ scan_pc' = "returned"
          /\ UNCHANGED token_estimate
     ELSE /\ token_estimate' = Scanned.tokens
          /\ scan_pc' = "tokens"
          /\ UNCHANGED scan_result
  /\ UNCHANGED <<caller_vars, issues, threat_level, truncated, other_than_scan>>

\* Lines 293-298.
ScanTokens ==
  /\ scan_pc = "tokens"
  /\ IF token_estimate > MAX_TOKENS
     THEN /\ issues' = Append(issues, "tokens")
          /\ truncated' = TRUE
          /\ threat_level' = "LOW"
     ELSE UNCHANGED <<issues, truncated, threat_level>>
  /\ scan_pc' = Checks[1].at
  /\ UNCHANGED <<caller_vars, token_estimate, scan_result, other_than_scan>>

\* Lines 300-337: check k; every issue it finds is appended and raises the
\* running level.  After the last check, lines 339-344 build the result.
ScanCheck(k) ==
  /\ scan_pc = Checks[k].at
  /\ LET n == Hits(Scanned, k)
     IN /\ issues' = issues \o [j \in 1..n |-> Checks[k].issue]
        /\ threat_level' = IF n > 0
                           THEN max_threat_level(threat_level, Checks[k].level)
                           ELSE threat_level
  /\ IF k < Len(Checks)
     THEN /\ scan_pc' = Checks[k + 1].at
          /\ UNCHANGED scan_result
     ELSE /\ scan_pc' = "returned"
          /\ scan_result' = ScanResult(threat_level', issues',
                                       Min(token_estimate, MAX_TOKENS), truncated)
  /\ UNCHANGED <<caller_vars, token_estimate, truncated, other_than_scan>>

\* main up to the scan inside validate_inputs (analyze.py 634-654,
\* input_validation.py 542-561).
MainValidateInputs ==
  /\ analyze_pc = "main"
  /\ IF content_override.len > 0
     THEN /\ CallScan
          /\ analyze_pc' = "validate_inputs"
          /\ UNCHANGED errors
     ELSE /\ errors' = IF inputs.other_errors THEN << "invalid_input" >> ELSE <<>>
          /\ analyze_pc' = "validated"
          /\ UNCHANGED scanner_vars
  /\ UNCHANGED <<entry, content_override, inputs, logger, phase1_content,
                 printed, raised_error, prompt, llm_prompts, other_than_scan>>

\* validate_inputs from the returned scan on (lines 563-617): the rejection
\* becomes an entry of errors, then the remaining validations run.
ValidateHandle ==
  /\ analyze_pc = "validate_inputs"
  /\ scan_pc = "returned"
  /\ LET r == handle_scan_result(scan_result, "None")
     IN /\ printed' = printed \o r.lines
        /\ errors' = errors
                       \o (IF r.raised THEN << "content_rejected" >> ELSE <<>>)
                       \o (IF inputs.other_errors THEN << "invalid_input" >> ELSE <<>>)
  /\ analyze_pc' = "validated"
  /\ UNCHANGED <<entry, content_override, inputs, logger, phase1_content,
                 scanner_vars, raised_error, prompt, llm_prompts, other_than_scan>>

\* main lines 656-715: return 1 on errors, pick the content source, and call
\* run_phase1.
MainSource ==
  /\ analyze_pc = "validated"
  /\ LET use_content_override == ~content_override.blank
     IN /\ IF errors # <<>>
           THEN /\ analyze_pc' = "exit1"
                /\ UNCHANGED phase1_content
           ELSE IF use_content_override
           THEN IF ~inputs.has_version
                THEN /\ analyze_pc' = "exit1"
                     /\ UNCHANGED phase1_content
                ELSE /\ analyze_pc' = "run_phase1"
                     /\ phase1_content' = content_override
           ELSE IF ~inputs.commits
                THEN /\ analyze_pc' = "exit1"
                     /\ UNCHANGED phase1_content
                ELSE /\ analyze_pc' = "run_phase1"
                     /\ phase1_content' = NoContent
  /\ UNCHANGED <<entry, content_override, inputs, logger, scanner_vars, errors,
                 printed, raised_error, prompt, llm_prompts, other_than_scan>>

\* run_phase1 lines 354-357 and 370-379: scan the content, or build the
\* prompt from the commits.
Phase1Start ==
  /\ analyze_pc = "run_phase1"
  /\ IF phase1_content.len > 0
     THEN /\ CallScan
          /\ analyze_pc' = "phase1_scan"
          /\ UNCHANGED prompt
     ELSE /\ prompt' = Prompt("commits", NoContent, FALSE)
          /\ analyze_pc' = "call_llm"
          /\ UNCHANGED scanner_vars
  /\ UNCHANGED <<entry, content_override, inputs, logger, phase1_content, errors,
                 printed, raised_error, llm_prompts, other_than_scan>>

\* run_phase1 lines 358-368: handle_scan_result, truncate_for_context and
\* build_semantic_analysis_prompt.  A ValueError leaves run_phase1; main
\* catches it and returns 1.
Phase1Handle ==
  /\ analyze_pc = "phase1_scan"
  /\ scan_pc = "returned"
  /\ LET r == handle_scan_result(scan_result, "None")
     IN /\ printed' = printed \o r.lines
        /\ raised_error' = r.error
        /\ IF r.raised
           THEN /\ analyze_pc' = IF entry = "main" THEN "exit1" ELSE "raised"
                /\ UNCHANGED prompt
           ELSE /\ prompt' = Prompt("content_override", phase1_content,
                                    scan_result.truncated)
                /\ analyze_pc' = "call_llm"
  /\ UNCHANGED <<entry, content_override, inputs, logger, phase1_content,
                 scanner_vars, errors, llm_prompts, other_than_scan>>

\* run_phase1 lines 383-390: call_llm_with_retry with the prompt; it returns
\* or raises.  In main, phase 2 follows with prompts built from the changes.
CallLLM(ok) ==
  /\ analyze_pc = "call_llm"
  /\ llm_prompts' = Append(llm_prompts, prompt)
  /\ analyze_pc' = IF ok
                   THEN (IF entry = "main" THEN "phase2" ELSE "done")
                   ELSE (IF entry = "main" THEN "exit1" ELSE "raised")
  /\ UNCHANGED <<entry, content_override, inputs, logger, phase1_content,
                 scanner_vars, errors, printed, raised_error, prompt, other_than_scan>>

\* main lines 731-741: run_phase2 calls the LLM with prompts built from the
\* changes of phase 1.
MainPhase2(ok) ==
  /\ analyze_pc = "phase2"
  /\ llm_prompts' = Append(llm_prompts, Prompt("changes", NoContent, FALSE))
  /\ analyze_pc' = IF ok THEN "done" ELSE "exit1"
  /\ UNCHANGED <<entry, content_override, inputs, logger, phase1_content,
                 scanner_vars, errors, printed, raised_error, prompt, other_than_scan>>

\* A direct call handle_scan_result(result, logger).
HandleScanResult ==
  /\ analyze_pc = "handle_scan_result"
  /\ LET r == handle_scan_result(scan_result, logger)
     IN /\ printed' = printed \o r.lines
        /\ raised_error' = r.error
        /\ analyze_pc' = IF r.raised THEN "raised" ELSE "done"
  /\ UNCHANGED <<entry, content_override, inputs, logger, phase1_content,
                 scanner_vars, errors, prompt, llm_prompts, other_than_scan>>

ScanNext ==
  \/ ScanSize
  \/ ScanTokens
  \/ \E k \in 1..Len(Checks) : ScanCheck(k)
  \/ MainValidateInputs
  \/ ValidateHandle
  \/ MainSource
  \/ Phase1Start
  \/ Phase1Handle
  \/ \E ok \in BOOLEAN : CallLLM(ok)
  \/ \E ok \in BOOLEAN : MainPhase2(ok)
  \/ HandleScanResult

SpecScan == ScanInit /\ [][ScanNext]_vars

\* ------------------------------------------- chunk_with_overlap on its own
ChunkInit ==
  /\ pc = "chunk_with_overlap"
  /\ content \in ChunkTexts
  /\ chunk_size \in 1..MaxChunkSize
  /\ chunk_overlap \in 0..MaxOverlap
  /\ chunks = <<>>
  /\ PipelineIdle
  /\ ScanIdle
  /\ RegexIdle
  /\ ToolsIdle

\* One call chunk_with_overlap(content, chunk_size, overlap).
ChunkText ==
  /\ pc = "chunk_with_overlap"
  /\ chunks' = chunk_with_overlap(content, chunk_size, chunk_overlap)
  /\ pc' = "returned"
  /\ UNCHANGED <<args, map_vars, reduce_vars, result, warnings>>
  /\ UNCHANGED other_than_process

ChunkNext == ChunkText

SpecChunk == ChunkInit /\ [][ChunkNext]_vars

\* ========================================================================
\* safe_compile_pattern(pattern, timeout) on its own.
CompileInit ==
  /\ regex_pc = "safe_compile_pattern"
  /\ pattern \in CompileInputs
  /\ timeout = REGEX_TIMEOUT
  /\ CompileIdle
  /\ FilterIdle
  /\ ProcessIdle
  /\ ScanIdle
  /\ ToolsIdle

\* safe_compile_pattern, lines 177-190: the static check, then regex.compile.
\* No method of the compiled pattern is called.
Compile ==
  /\ regex_pc = "safe_compile_pattern"
  /\ compiled' = safe_compile_pattern(pattern, timeout)
  /\ regex_pc' = IF compiled'.raised THEN "raised" ELSE "compiled"
  /\ UNCHANGED <<pattern, timeout, last_call, calls, earlier_timeout>>
  /\ UNCHANGED filter_vars
  /\ UNCHANGED other_than_regex

CompileNext == Compile

SpecCompile == CompileInit /\ [][CompileNext]_vars

\* ========================================================================
\* A TimeoutPattern and the calls of its methods.
TimeoutPatternInit ==
  /\ regex_pc = "safe_compile_pattern"
  /\ pattern \in LiteralPatterns
  /\ timeout \in {REGEX_TIMEOUT, 2 * REGEX_TIMEOUT}
  /\ CompileIdle
  /\ FilterIdle
  /\ ProcessIdle
  /\ ScanIdle
  /\ ToolsIdle

\* One call of search, match, fullmatch, findall or sub (lines 108-151) on
\* the wrapper; the engine may run out of time on any call.
Call(method, string, timed_out) ==
  /\ regex_pc = "compiled"
  /\ calls < MaxCalls
  /\ LET r == TimeoutPatternCall(compiled, method, Repl, string, timed_out)
     IN /\ compiled' = r.self
        /\ last_call' = [method |-> method, string |-> string,
                         timed_out |-> timed_out, raised |-> r.raised,
                         error |-> r.error, value |-> r.value]
  /\ calls' = calls + 1
  /\ earlier_timeout' = (earlier_timeout \/ last_call.raised)
  /\ UNCHANGED <<regex_pc, pattern, timeout>>
  /\ UNCHANGED filter_vars
  /\ UNCHANGED other_than_regex

TimeoutPatternNext ==
  \/ Compile
  \/ \E method \in Methods : \E string \in SubjectStrings : \E timed_out \in BOOLEAN :
       Call(method, string, timed_out)

SpecTimeoutPattern == TimeoutPatternInit /\ [][TimeoutPatternNext]_vars

\* ========================================================================
\* filter_changes(changes, config).
FilterInit ==
  /\ filter_pc = "compile"
  /\ config \in AudienceConfigs
  /\ change_list \in SeqsUpTo(Changes, MaxChanges)
  /\ FilterLocalsInit
  /\ regex_pc = "idle"
  /\ pattern = <<>>
  /\ timeout = 0
  /\ CompileIdle
  /\ ProcessIdle
  /\ ScanIdle
  /\ ToolsIdle

\* Lines 272-282: the compile loop; an error leaves filter_changes.
FilterCompile ==
  /\ filter_pc = "compile"
  /\ LET r == compile_exclude_patterns(config.exclude_patterns, <<>>)
     IN /\ compiled_patterns' = r.compiled_patterns
        /\ filter_log' = filter_log \o r.log
        /\ filter_pc' = IF r.raised THEN "raised" ELSE "filter"
        /\ filter_result' =
             IF r.raised
             THEN [raised |-> TRUE, error |-> r.error, returned |-> FALSE]
             ELSE filter_result
  /\ UNCHANGED <<config, change_list, change_index, filtered, searches>>
  /\ UNCHANGED compile_vars
  /\ UNCHANGED other_than_regex

\* Lines 284-322 for one change: the exclusions, then the pattern loop, in
\* which search number timeout_at (0: none) runs out of time.
FilterChange(timeout_at) ==
  /\ filter_pc = "filter"
  /\ change_index <= Len(change_list)
  /\ LET c == change_list[change_index]
         r == PatternLoop(compiled_patterns, c, 1, 0, timeout_at)
     IN IF excluded(c, config)
        THEN /\ timeout_at = 0
             /\ change_index' = change_index + 1
             /\ UNCHANGED <<filter_pc, filtered, searches, filter_result>>
        ELSE /\ timeout_at <= r.searches
             /\ searches' = searches + r.searches
             /\ IF r.raised
                THEN /\ filter_pc' = "raised"
                     /\ filter_result' =
                          [raised |-> TRUE, error |-> "PatternTimeoutError",
                           returned |-> FALSE]
                     /\ UNCHANGED <<change_index, filtered>>
                ELSE /\ change_index' = change_index + 1
                     /\ filtered' =
                          IF r.pattern_matched THEN filtered ELSE Append(filtered, c)
                     /\ UNCHANGED <<filter_pc, filter_result>>
  /\ UNCHANGED <<config, change_list, compiled_patterns, filter_log>>
  /\ UNCHANGED compile_vars
  /\ UNCHANGED other_than_regex

\* Lines 324-328: the cap per section, and the return.
FilterReturn ==
  /\ filter_pc = "filter"
  /\ change_index > Len(change_list)
  /\ filtered' =
       IF config.max_items_per_section # <<>>
       THEN apply_max_items_per_section(filtered, config.sections,
                                        config.max_items_per_section[1])
       ELSE filtered
  /\ filter_result' = [raised |-> FALSE, error |-> "", returned |-> TRUE]
  /\ filter_pc' = "returned"
  /\ UNCHANGED <<config, change_list, compiled_patterns, change_index, searches,
                 filter_log>>
  /\ UNCHANGED compile_vars
  /\ UNCHANGED other_than_regex

FilterNext ==
  \/ FilterCompile
  \/ \E timeout_at \in 0..(2 * MaxPatterns) : FilterChange(timeout_at)
  \/ FilterReturn

SpecFilter == FilterInit /\ [][FilterNext]_vars

\* ========================================================================
\* truncate_for_context(content, max_tokens).
other_than_trunc == <<process_vars, scan_vars, regex_vars, summ_vars, analyze_vars, san_vars>>
OtherThanTruncIdle == ProcessIdle /\ ScanIdle /\ RegexIdle /\ SummIdle /\ AnalyzeIdle /\ SanIdle

TruncInit ==
  /\ trunc_pc = "parse_changelog_sections"
  /\ changelog \in Changelogs
  /\ max_tokens \in 0..MaxBudget
  /\ TruncLocalsInit
  /\ OtherThanTruncIdle

\* Line 434.
ParseSections ==
  /\ trunc_pc = "parse_changelog_sections"
  /\ parsed_sections' = parse_changelog_sections(changelog)
  /\ trunc_pc' = "priority_order"
  /\ UNCHANGED <<changelog, max_tokens, result_parts, truncated_content>>
  /\ UNCHANGED other_than_trunc

\* Lines 436-453: the loop over priority_order, and the join.
TruncateSections ==
  /\ trunc_pc = "priority_order"
  /\ result_parts' = ContextLoop(parsed_sections, 1, <<>>, max_tokens)
  /\ truncated_content' = JoinParts(result_parts')
  /\ trunc_pc' = "returned"
  /\ UNCHANGED <<changelog, max_tokens, parsed_sections>>
  /\ UNCHANGED other_than_trunc

TruncNext == ParseSections \/ TruncateSections

SpecTruncate == TruncInit /\ [][TruncNext]_vars

\* ========================================================================
\* SummarizingMapReduce.summarize_to_budget(content, max_tokens, llm_caller).
other_than_summ == <<process_vars, scan_vars, regex_vars, trunc_vars, analyze_vars, san_vars>>
OtherThanSummIdle == ProcessIdle /\ ScanIdle /\ RegexIdle /\ TruncIdle /\ AnalyzeIdle /\ SanIdle

SummInit ==
  /\ summ_pc = "summarize_to_budget"
  /\ document \in SummaryContents
  /\ summary_budget \in 0..MaxSummaryBudget
  /\ summarizer \in [chunk_size : {4, 8}, chunk_overlap : {0, 1}]
  /\ SummLocalsInit
  /\ OtherThanSummIdle

\* Lines 183-201: the passthrough, else the chunking.
SummStart ==
  /\ summ_pc = "summarize_to_budget"
  /\ IF fits_budget(document, summary_budget)
     THEN /\ summ_result' = SummarizeResult(document, FALSE,
                                            chars_estimate_tokens(document),
                                            chars_estimate_tokens(document), <<>>)
          /\ summ_pc' = "returned"
          /\ UNCHANGED <<summ_chunks, results>>
     ELSE /\ summ_chunks' = chunk_with_overlap(document, summarizer.chunk_size,
                                               summarizer.chunk_overlap)
          /\ summ_pc' = IF Len(summ_chunks') <= 1 THEN "single" ELSE "map"
          /\ results' = [i \in 1..Len(summ_chunks') |-> [set |-> FALSE, text |-> <<>>]]
          /\ UNCHANGED summ_result
  /\ UNCHANGED <<document, summary_budget, summarizer, summ_warnings, summ_calls>>
  /\ UNCHANGED other_than_summ

\* Lines 201-219: one chunk at most; the summary of the head of the content
\* is truncated when it does not fit.  An error of llm_caller leaves the
\* function.
SummarizeDirectly(o) ==
  /\ summ_pc = "single"
  /\ summ_calls' = summ_calls + 1
  /\ IF o.raised
     THEN /\ summ_pc' = "raised"
          /\ UNCHANGED <<summ_result, summ_warnings>>
     ELSE /\ summ_result' =
               Summarized(extract_summary(o.response), summary_budget,
                          chars_estimate_tokens(document), summ_warnings,
                          <<"Summary truncated", summary_budget>>)
          /\ summ_warnings' = summ_result'.warnings
          /\ summ_pc' = "returned"
  /\ UNCHANGED <<document, summary_budget, summarizer, summ_chunks, results>>
  /\ UNCHANGED other_than_summ

\* Lines 145-153 and 224-238: the task of chunk i ends and as_completed
\* yields it; its summary, or "" and a warning when llm_caller raised.
SummarizeChunk(i, o) ==
  /\ summ_pc = "map"
  /\ i \in 1..Len(results)
  /\ ~results[i].set
  /\ summ_calls' = summ_calls + 1
  /\ results' = [results EXCEPT ![i] =
                   [set |-> TRUE,
                    text |-> IF o.raised THEN <<>> ELSE extract_summary(o.response)]]
  /\ summ_warnings' = IF o.raised
                      THEN Append(summ_warnings, <<"Failed to summarize chunk", i - 1>>)
                      ELSE summ_warnings
  /\ UNCHANGED <<summ_pc, document, summary_budget, summarizer, summ_chunks, summ_result>>
  /\ UNCHANGED other_than_summ

\* summaries = [r for r in results if r]
summaries == SelectSeq(results, LAMBDA r : r.text # <<>>)

\* Lines 242-252: with no summary, the truncated original is returned.
SummFallback ==
  /\ summ_pc = "map"
  /\ \A i \in 1..Len(results) : results[i].set
  /\ summaries = <<>>
  /\ summ_warnings' = Append(summ_warnings, <<"All summarization failed", summary_budget>>)
  /\ summ_result' = SummarizeResult(hard_truncate(document, summary_budget), FALSE,
                                    chars_estimate_tokens(document), summary_budget,
                                    summ_warnings')
  /\ summ_pc' = "returned"
  /\ UNCHANGED <<document, summary_budget, summarizer, summ_chunks, results, summ_calls>>
  /\ UNCHANGED other_than_summ

\* Lines 254-271: the reduce call on the summaries; its answer is truncated
\* when it does not fit.  An error of llm_caller leaves the function.
SummReduce(o) ==
  /\ summ_pc = "map"
  /\ \A i \in 1..Len(results) : results[i].set
  /\ summaries # <<>>
  /\ summ_calls' = summ_calls + 1
  /\ IF o.raised
     THEN /\ summ_pc' = "raised"
          /\ UNCHANGED <<summ_result, summ_warnings>>
     ELSE /\ summ_result' =
               Summarized(extract_summary(o.response), summary_budget,
                          chars_estimate_tokens(document), summ_warnings,
                          <<"Reduced summary truncated", summary_budget>>)
          /\ summ_warnings' = summ_result'.warnings
          /\ summ_pc' = "returned"
  /\ UNCHANGED <<document, summary_budget, summarizer, summ_chunks, results>>
  /\ UNCHANGED other_than_summ

SummNext ==
  \/ SummStart
  \/ \E o \in SummaryOutcomes : SummarizeDirectly(o)
  \/ \E i \in 1..Len(results) : \E o \in SummaryOutcomes : SummarizeChunk(i, o)
  \/ SummFallback
  \/ \E o \in SummaryOutcomes : SummReduce(o)

SpecSummarize == SummInit /\ [][SummNext]_vars

\* --------------------------------------------------- call_llm_with_retry
other_than_analyze == <<process_vars, scan_vars, regex_vars, trunc_vars, summ_vars, san_vars>>
OtherThanAnalyzeIdle == ProcessIdle /\ ScanIdle /\ RegexIdle /\ TruncIdle /\ SummIdle /\ SanIdle

RetryInit ==
  /\ retry_pc = "calling"
  /\ max_retries \in 0..MaxRetries
  /\ RetryLocalsInit
  /\ usage_before \in UsagesBefore
  /\ usage = usage_before
  /\ Phase2Idle
  /\ OtherThanAnalyzeIdle

\* Lines 187-222: one turn of the loop in which litellm.completion returns
\* content; the usage is added to _usage and the function returns.
CompletionReturns(o) ==
  /\ retry_pc = "calling"
  /\ attempt < max_retries
  /\ caught(o) = <<>>
  /\ provider_log' = Append(provider_log, o)
  /\ usage' = add(usage, "model")
  /\ retry_pc' = "returned"
  /\ UNCHANGED <<max_retries, attempt, sleeps, retry_raised, usage_before>>
  /\ UNCHANGED phase2_vars
  /\ UNCHANGED other_than_analyze

\* Lines 187-246: one turn of the loop in which the try block ends with an
\* exception: of litellm.completion, or the RuntimeError of line 202.
CompletionFails(o) ==
  /\ retry_pc = "calling"
  /\ attempt < max_retries
  /\ caught(o) # <<>>
  /\ provider_log' = Append(provider_log, o)
  /\ IF is_auth_error(caught(o))
     THEN /\ retry_raised' = "auth"
          /\ retry_pc' = "raised"
          /\ UNCHANGED <<attempt, sleeps>>
     ELSE IF retried(caught(o), max_retries, attempt)
     THEN /\ sleeps' = Append(sleeps, 2 ^ (attempt + 1))
          /\ attempt' = attempt + 1
          /\ UNCHANGED <<retry_pc, retry_raised>>
     ELSE /\ retry_raised' = "failed"
          /\ retry_pc' = "raised"
          /\ UNCHANGED <<attempt, sleeps>>
  /\ UNCHANGED <<max_retries, usage, usage_before>>
  /\ UNCHANGED phase2_vars
  /\ UNCHANGED other_than_analyze

\* Line 248: the loop ended without a return or a raise.
RetriesExhausted ==
  /\ retry_pc = "calling"
  /\ attempt >= max_retries
  /\ retry_raised' = "failed"
  /\ retry_pc' = "raised"
  /\ UNCHANGED <<max_retries, attempt, provider_log, sleeps, usage, usage_before>>
  /\ UNCHANGED phase2_vars
  /\ UNCHANGED other_than_analyze

RetryNext ==
  \/ \E o \in Completions : CompletionReturns(o)
  \/ \E o \in Completions : CompletionFails(o)
  \/ RetriesExhausted

SpecRetry == RetryInit /\ [][RetryNext]_vars

\* ------------------------------------------------------------- run_phase2
\* run_phase2 with its tasks, 1..Len(task_pc), in the pool of line 497: each
\* task is a thread in call_llm_with_retry whose first call of
\* litellm.completion succeeds and which then runs _usage.add(usage), lines
\* 41-56.  No lock is taken: a += is a read and a later write, and other
\* threads run between them.
Phase2Init ==
  /\ phase2_pc = "pool"
  /\ \E n \in 1..MaxTasks : task_pc = [t \in 1..n |-> "completion"]
  /\ task_read = [t \in 1..Len(task_pc) |-> 0]
  /\ usage_before \in UsagesBefore
  /\ usage = usage_before
  /\ RetryIdle
  /\ OtherThanAnalyzeIdle

\* Task t takes the step from statement from to statement to.
TaskStep(t, from, to) ==
  /\ phase2_pc = "pool"
  /\ t \in 1..Len(task_pc)
  /\ task_pc[t] = from
  /\ task_pc' = [task_pc EXCEPT ![t] = to]
  /\ UNCHANGED <<phase2_pc, usage_before>>
  /\ UNCHANGED retry_vars
  /\ UNCHANGED other_than_analyze

\* Lines 190-217 of call_llm_with_retry: the response of the task arrives.
TaskCompletion(t) ==
  /\ TaskStep(t, "completion", "read_total_calls")
  /\ UNCHANGED <<usage, task_read>>

\* Line 43, self.total_calls += 1: the read ...
ReadTotalCalls(t) ==
  /\ TaskStep(t, "read_total_calls", "write_total_calls")
  /\ task_read' = [task_read EXCEPT ![t] = usage.total_calls]
  /\ UNCHANGED usage
\* ... and the write.
WriteTotalCalls(t) ==
  /\ TaskStep(t, "write_total_calls", "check_model")
  /\ usage' = [usage EXCEPT !.total_calls = task_read[t] + 1]
  /\ UNCHANGED task_read

\* Line 50: if usage.model not in self.models
CheckModel(t) ==
  /\ TaskStep(t, "check_model",
              IF "model" \in DOMAIN usage.models THEN "read_calls" ELSE "new_model")
  /\ UNCHANGED <<usage, task_read>>
\* Line 51: self.models[usage.model] = {..., "calls": 0}
NewModel(t) ==
  /\ TaskStep(t, "new_model", "read_calls")
  /\ usage' = SetModel(usage, "model", 0)
  /\ UNCHANGED task_read

\* Line 56, self.models[usage.model]["calls"] += 1: the read ...
ReadCalls(t) ==
  /\ TaskStep(t, "read_calls", "write_calls")
  /\ task_read' = [task_read EXCEPT ![t] = usage.models["model"]]
  /\ UNCHANGED usage
\* ... and the write; the task is done.
WriteCalls(t) ==
  /\ TaskStep(t, "write_calls", "done")
  /\ usage' = SetModel(usage, "model", task_read[t] + 1)
  /\ UNCHANGED task_read

\* Lines 500-516: every future is collected and run_phase2 returns.
Phase2Return ==
  /\ phase2_pc = "pool"
  /\ \A t \in 1..Len(task_pc) : task_pc[t] = "done"
  /\ phase2_pc' = "returned"
  /\ UNCHANGED <<task_pc, task_read, usage, usage_before>>
  /\ UNCHANGED retry_vars
  /\ UNCHANGED other_than_analyze

Phase2Next ==
  \/ \E t \in 1..MaxTasks : TaskCompletion(t)
  \/ \E t \in 1..MaxTasks : ReadTotalCalls(t)
  \/ \E t \in 1..MaxTasks : WriteTotalCalls(t)
  \/ \E t \in 1..MaxTasks : CheckModel(t)
  \/ \E t \in 1..MaxTasks : NewModel(t)
  \/ \E t \in 1..MaxTasks : ReadCalls(t)
  \/ \E t \in 1..MaxTasks : WriteCalls(t)
  \/ Phase2Return

SpecPhase2 == Phase2Init /\ [][Phase2Next]_vars

\* ------------------------------------------------------- sanitize_content
other_than_san == <<process_vars, scan_vars, regex_vars, trunc_vars, summ_vars, analyze_vars>>
OtherThanSanIdle ==
  ProcessIdle /\ ScanIdle /\ RegexIdle /\ TruncIdle /\ SummIdle /\ AnalyzeIdle

SanInit ==
  /\ san_pc = "sanitize_content"
  /\ san_content \in SanitizeContents
  /\ san_result = <<>>
  /\ OtherThanSanIdle

\* Lines 486-510.
Sanitize ==
  /\ san_pc = "sanitize_content"
  /\ san_result' = sanitize_content(san_content)
  /\ san_pc' = "returned"
  /\ UNCHANGED san_content
  /\ UNCHANGED other_than_san

SanNext == Sanitize

SpecSanitize == SanInit /\ [][SanNext]_vars

\* ----------------------------------------------------------------- claims
\* A change without its id.
ContentOf(c) ==
  [category |-> c.category, title |-> c.title, description |-> c.description,
   importance |-> c.importance]

Contents(changes) == [k \in 1..Len(changes) |-> ContentOf(changes[k])]

Count(s, v) == Cardinality({k \in 1..Len(s) : s[k] = v})

\* s and t hold the same elements the same number of times.
SameBag(s, t) ==
  /\ Len(s) = Len(t)
  /\ \A v \in Range(s) \cup Range(t) : Count(s, v) = Count(t, v)

\* What chunk i's task contributed: nothing when it raised.
ChunkItems(i) ==
  IF futures[i].raised
  THEN <<>>
  ELSE Contents(extract_changes_from_response(futures[i].response))

\* The items of all chunks in chunk-index order.
ItemsInChunkOrder ==
  Concat([k \in 1..Cardinality(DOMAIN futures) |-> ChunkItems(k - 1)])

MapEnded == DOMAIN futures # {} /\ AllCollected

FailedChunks == {i \in DOMAIN futures : futures[i].raised}

\* The reducer answered the reduce prompt with text holding no item.
FallbackTaken ==
  /\ reduce_response.called
  /\ ~reduce_response.raised
  /\ extract_changes_from_response(reduce_response.response) = <<>>

\* The reducer answered the flatten prompt with text holding no item.
FlattenEmpty ==
  /\ flatten_response.called
  /\ ~flatten_response.raised
  /\ parse_flattened_changes(flatten_response.response) = <<>>

\* C1: the list handed to the reduce phase holds the items in chunk-index
\* order with ids 1..n, whatever the order in which the chunk tasks completed.
C1_ItemOrderIndependentOfCompletion ==
  pc = "reduce" =>
    /\ Contents(all_changes) = ItemsInChunkOrder
    /\ \A k \in 1..Len(all_changes) : all_changes[k].id = k

\* C1, its other half: no item has an id while a chunk task is unresolved.
C1_NoIdBeforeAllResolved ==
  (\E i \in DOMAIN futures : futures[i].state \in {"queued", "running"})
    => all_changes = <<>>

\* C2: chunk tasks that raise do not make the call raise and contribute no
\* item, and the list handed to the reduce phase holds every item of every
\* other chunk.
C2_FailedChunksIsolated ==
  /\ pc = "raised" => reduce_response.raised \/ flatten_response.raised
  /\ MapEnded => SameBag(Contents(all_changes), ItemsInChunkOrder)

C2_Witness ==
  /\ pc = "reduce"
  /\ \E i, j \in DOMAIN futures :
       futures[i].raised /\ ~futures[j].raised /\ ChunkItems(j) # <<>>

\* C3 as stated: with exactly one failed chunk the warnings hold exactly one
\* entry, naming that chunk.
C3_ExactlyOneWarning ==
  (pc = "done" /\ Cardinality(FailedChunks) = 1) =>
    /\ Len(warnings) = 1
    /\ warnings[1].chunk \in FailedChunks

\* C3 amended: with exactly one failed chunk the printed warnings hold exactly
\* one chunk-failure entry, naming that chunk (other warnings may be printed).
C3_OneChunkFailureWarning ==
  (MapEnded /\ Cardinality(FailedChunks) = 1) =>
    LET w == {k \in 1..Len(warnings) : warnings[k].kind = "chunk_failed"}
    IN /\ Cardinality(w) = 1
       /\ \A k \in w : warnings[k].chunk \in FailedChunks

C3_Witness ==
  /\ pc = "done"
  /\ Cardinality(FailedChunks) = 1
  /\ Len(warnings) > 1
  /\ result # <<>>

\* C4: a reducer that raises in the reduce call or in the flatten call does
\* not make process_large_input raise.
C4_ReducerFailureNonFatal ==
  (reduce_response.raised \/ flatten_response.raised) => pc # "raised"

\* C5 as stated: when the reduce answer holds no item, the returned items are
\* the pre-reduce items, none lost and none added.
C5_UnparsableReduceKeepsAllItems ==
  (pc = "done" /\ FallbackTaken) =>
    SameBag(Contents(result), Contents(all_changes))

\* C5 amended: when the reduce answer and the flatten answer both hold no
\* item, the returned items are the pre-reduce items, none lost, none added.
C5_UnparsableReduceAndFlattenKeepAllItems ==
  (pc = "done" /\ FallbackTaken /\ FlattenEmpty) =>
    SameBag(Contents(result), Contents(all_changes))

C5_Witness ==
  /\ pc = "done"
  /\ FallbackTaken
  /\ FlattenEmpty
  /\ Contents(result) # Contents(all_changes)

\* C6 as stated: in the reduce fallback no item stands behind an item of a
\* strictly less severe category rank.
C6_FallbackSortedByCategoryFirst ==
  FallbackTaken =>
    \A i, j \in 1..Len(reduced_changes) :
      i < j => ~(priority(reduced_changes[j].category)
                   < priority(reduced_changes[i].category))

\* C6 amended: the reduce fallback is sorted by importance rank first and by
\* category rank second.
C6_FallbackSortedByImportanceFirst ==
  FallbackTaken =>
    \A i, j \in 1..Len(reduced_changes) :
      i < j =>
        LET a == reduced_changes[i]
            b == reduced_changes[j]
        IN \/ imp_priority(a.importance) < imp_priority(b.importance)
           \/ /\ imp_priority(a.importance) = imp_priority(b.importance)
              /\ priority(a.category) <= priority(b.category)

C6_Witness ==
  /\ FallbackTaken
  /\ \E i, j \in 1..Len(reduced_changes) :
       /\ i < j
       /\ priority(reduced_changes[j].category) < priority(reduced_changes[i].category)

\* C7 as stated: with 5 or fewer items from the map phase the reducer function
\* is never invoked.
C7_NoReducerCallForFewItems ==
  (MapEnded /\ Len(all_changes) <= 5) => reducer_calls = 0

\* C7 amended: with 5 or fewer items the reduce call is skipped; the reducer
\* function is invoked only by the flatten call, once, and not at all when the
\* map phase yielded no item.
C7_ReduceSkippedForFewItems ==
  (MapEnded /\ Len(all_changes) <= 5) =>
    /\ ~reduce_response.called
    /\ reducer_calls = (IF flatten_response.called THEN 1 ELSE 0)
    /\ all_changes = <<>> => reducer_calls = 0
    /\ (pc \in {"done", "raised"} /\ all_changes # <<>>) => reducer_calls = 1

C7_Witness ==
  /\ pc = "done"
  /\ Len(all_changes) = 5
  /\ ~reduce_response.called
  /\ reducer_calls = 1

\* C8: when the flatten answer holds no item, the call returns the reduced
\* list, same content and order, with ids 1..n in list order.
C8_EmptyFlattenKeepsReducedList ==
  (pc = "done" /\ FlattenEmpty) =>
    /\ Len(result) = Len(reduced_changes)
    /\ result # <<>>
    /\ \A k \in 1..Len(result) :
         /\ ContentOf(result[k]) = ContentOf(reduced_changes[k])
         /\ result[k].id = k

C8_Witness ==
  /\ pc = "done"
  /\ FlattenEmpty
  /\ \E k \in 1..Len(reduced_changes) : reduced_changes[k].id # k

\* C9: the returned list is never longer than the reduced list given to the
\* flatten call.
C9_FlattenOnlyShrinks ==
  (pc = "done" /\ flatten_response.called) => Len(result) <= Len(reduced_changes)

FiredLevels(c) ==
  IF c.len > MAX_CONTENT_SIZE
  THEN {"CRITICAL"}
  ELSE (IF c.tokens > MAX_TOKENS THEN {"LOW"} ELSE {})
         \cup {Checks[k].level : k \in {j \in 1..Len(Checks) : Hits(c, j) > 0}}

\* The maximum of a set of levels in the order NONE < ... < CRITICAL.
MaxLevel(levels) ==
  IF levels = {}
  THEN "NONE"
  ELSE CHOOSE l \in levels : \A m \in levels : LevelIndex(l) >= LevelIndex(m)

Rejected(c) == MaxLevel(FiredLevels(c)) \in {"HIGH", "CRITICAL"}

AnalyzeEnded == analyze_pc \in {"done", "raised", "exit1"}

\* The lines of printed that carry the truncation warning.
TruncationWarnings ==
  {k \in 1..Len(printed) : printed[k].text = "Content will be truncated"}

\* C11: in run_phase1 and in main, no prompt is built from content whose scan
\* result is HIGH or CRITICAL and no such prompt reaches the LLM; the call
\* ends with the rejection raised (run_phase1) or reported (main returns 1)
\* and without any LLM call.
C11_RejectedContentNeverSent ==
  /\ prompt.source = "content_override" => ~Rejected(prompt.content)
  /\ \A k \in 1..Len(llm_prompts) :
       llm_prompts[k].source = "content_override" => ~Rejected(llm_prompts[k].content)
  /\ (entry = "run_phase1" /\ Rejected(content_override) /\ content_override.len > 0
      /\ AnalyzeEnded)
       => /\ analyze_pc = "raised"
          /\ raised_error.level \in {"HIGH", "CRITICAL"}
          /\ llm_prompts = <<>>
  /\ (entry = "main" /\ Rejected(content_override) /\ content_override.len > 0
      /\ (AnalyzeEnded \/ analyze_pc = "validated"))
       => /\ analyze_pc \in {"exit1", "validated"}
          /\ \E k \in 1..Len(errors) : errors[k] = "content_rejected"
          /\ prompt = NoPrompt
          /\ llm_prompts = <<>>

C11_Witness ==
  /\ entry = "run_phase1"
  /\ analyze_pc = "raised"
  /\ scan_result.threat_level = "HIGH"
  /\ raised_error.level = "HIGH"
  /\ prompt = NoPrompt
  /\ llm_prompts = <<>>

\* C12: handle_scan_result raises exactly when the result's threat_level is
\* HIGH or CRITICAL, whatever issues and truncated hold; the error names
\* that level.
C12_RaisesIffHighOrCritical ==
  (entry = "handle_scan_result" /\ AnalyzeEnded) =>
    /\ analyze_pc = "raised" <=> scan_result.threat_level \in {"HIGH", "CRITICAL"}
    /\ analyze_pc = "raised" => raised_error.level = scan_result.threat_level
    /\ analyze_pc = "done" => raised_error = NoError

C12_Witness ==
  /\ entry = "handle_scan_result"
  /\ analyze_pc = "done"
  /\ scan_result.threat_level = "MEDIUM"
  /\ scan_result.truncated
  /\ scan_result.issues # <<>>

\* C13 as stated: for every result with truncated = true the truncation
\* warning is written, at every level.
C13_TruncationAlwaysWarned ==
  (entry = "handle_scan_result" /\ AnalyzeEnded /\ scan_result.truncated)
    => TruncationWarnings # {}

\* C13 amended: at NONE, LOW and MEDIUM the truncation warning is written
\* exactly once when truncated is true (and not when it is false), with the
\* result's token estimate; at HIGH and CRITICAL the call raises and writes
\* nothing.
C13_TruncationWarnedUnlessRejected ==
  (entry = "handle_scan_result" /\ AnalyzeEnded) =>
    IF scan_result.threat_level \in {"HIGH", "CRITICAL"}
    THEN analyze_pc = "raised" /\ printed = <<>>
    ELSE /\ Cardinality(TruncationWarnings) = (IF scan_result.truncated THEN 1 ELSE 0)
         /\ \A k \in TruncationWarnings :
              /\ printed[k].tokens = scan_result.token_estimate
              /\ printed[k].fn = (IF logger = "None" THEN "print" ELSE "logger.warning")

C13_Witness ==
  /\ entry = "handle_scan_result"
  /\ analyze_pc = "done"
  /\ scan_result.threat_level = "NONE"
  /\ scan_result.truncated
  /\ TruncationWarnings # {}

\* C14: during one scan_content_override call the running threat level never
\* decreases, and the level returned is the maximum of the levels of the
\* checks that fired.
C14_ThreatLevelIsMonotoneMaximum ==
  [][ scan_pc \notin {"idle", "returned"} =>
        /\ LevelIndex(threat_level') >= LevelIndex(threat_level)
        /\ scan_pc' = "returned" =>
             scan_result'.threat_level = MaxLevel(FiredLevels(Scanned)) ]_vars

C14_Witness ==
  /\ scan_pc = "returned"
  /\ Scanned.role > 0
  /\ Scanned.delimiter > 0
  /\ Scanned.format
  /\ Scanned.control
  /\ scan_result.threat_level = "HIGH"
  /\ Len(scan_result.issues) >= 4

\* ------------------------------------------------- claims on the chunker
\* t without its whitespace characters.
NoWhitespace(t) == SelectSeq(t, LAMBDA c : c \notin Whitespace)

IsSubstring(c, t) ==
  \E i \in 1..(Len(t) + 1) : i + Len(c) - 1 <= Len(t) /\ SubSeq(t, i, i + Len(c) - 1) = c

\* The first k characters of chunk c are the last k characters of chunk p.
SharedPrefix(p, c, k) ==
  /\ k <= Len(p)
  /\ k <= Len(c)
  /\ SubSeq(c, 1, k) = SubSeq(p, Len(p) - k + 1, Len(p))

RECURSIVE Rejoins(_, _, _, _, _)
\* acc, continued with the chunks cs[i..] each minus some prefix it shares
\* with its predecessor, gives target; with squeeze the two are compared
\* without their whitespace.
Rejoins(cs, i, acc, target, squeeze) ==
  IF i > Len(cs)
  THEN IF squeeze THEN NoWhitespace(acc) = NoWhitespace(target) ELSE acc = target
  ELSE \E k \in 0..Len(cs[i]) :
         /\ SharedPrefix(cs[i - 1], cs[i], k)
         /\ Rejoins(cs, i + 1, acc \o SubSeq(cs[i], k + 1, Len(cs[i])), target, squeeze)

C20_NoEmptyChunk ==
  pc = "returned" => \A k \in 1..Len(chunks) : chunks[k] # <<>>

\* C20 amended: no returned chunk is the empty string for every text but the
\* empty one, which is returned as the single chunk "".
C20_NoEmptyChunkOfNonEmptyText ==
  pc = "returned" =>
    IF content = <<>>
    THEN chunks = << <<>> >>
    ELSE \A k \in 1..Len(chunks) : chunks[k] # <<>>

C20_Witness ==
  /\ pc = "returned"
  /\ Len(content) > chunk_size
  /\ NoWhitespace(content) # content
  /\ Head(content) \in Whitespace
  /\ chunks # <<>>
  /\ \A k \in 1..Len(chunks) : chunks[k] # <<>>

\* ------------------------------------------------ filter_changes, claims
\* The positions of the exclude patterns that fail static validation.
UnsafePositions ==
  {k \in 1..Len(config.exclude_patterns) :
     validate_pattern_safety(config.exclude_patterns[k]) # <<>>}

\* C15: when one of the exclude patterns fails static validation, wherever
\* it stands in the list, filter_changes never gets to filter a change: no
\* pattern is searched with, no list is returned, and the call ends by
\* raising PatternCompilationError.
C15_UnsafePatternAbortsFiltering ==
  UnsafePositions # {} =>
    /\ filter_pc \in {"compile", "raised"}
    /\ searches = 0
    /\ filtered = <<>>
    /\ ~filter_result.returned
    /\ filter_pc = "raised" =>
         filter_result.raised /\ filter_result.error = "PatternCompilationError"

\* The call raised on an unsafe second pattern, after a safe first pattern
\* that matches the title of the first change, which nothing else excludes.
C15_Witness ==
  /\ filter_pc = "raised"
  /\ filter_result.error = "PatternCompilationError"
  /\ Len(config.exclude_patterns) = 2
  /\ UnsafePositions = {2}
  /\ Len(compiled_patterns) = 1
  /\ change_list # <<>>
  /\ ~excluded(change_list[1], config)
  /\ regex_search(compiled_patterns[1], change_list[1].title).kind = "Match"

\* C27: a search that times out in filter_changes is caught there: the call
\* does not end by raising PatternTimeoutError.
C27_TimeoutDoesNotRaise ==
  ~(filter_pc = "raised" /\ filter_result.error = "PatternTimeoutError")

\* --------------------------------------------------- TimeoutPattern, claims
\* C16: every call of search, match, fullmatch, findall or sub leaves the
\* wrapper's compiled pattern and timeout as they were constructed; the call
\* raises PatternTimeoutError exactly when it ran out of time, and otherwise
\* returns what a wrapper fresh from safe_compile_pattern returns, whatever
\* calls timed out before it.
C16_TimeoutLeavesWrapperIntact ==
  [][(regex_pc = "compiled" /\ calls' = calls + 1) =>
       /\ compiled' = compiled
       /\ compiled' = TimeoutPattern(pattern, timeout)
       /\ last_call'.raised = last_call'.timed_out
       /\ last_call'.raised => last_call'.error = "PatternTimeoutError"
       /\ ~last_call'.raised =>
            last_call'.value =
              EngineCall(TimeoutPattern(pattern, timeout), last_call'.method,
                         Repl, last_call'.string)]_vars

\* A search that matches "A" with pattern "a", on a wrapper whose earlier
\* call timed out.
C16_Witness ==
  /\ calls = 2
  /\ earlier_timeout
  /\ pattern = <<"a">>
  /\ last_call.method = "search"
  /\ last_call.string = <<"b", "A">>
  /\ ~last_call.raised
  /\ last_call.value = Match(1, 2)

\* ------------------------------------------- safe_compile_pattern, claims
\* The position of the ")" that closes the "(" at position i of p, 0 when
\* there is none.
Closing(p, i) ==
  LET closes == {m \in (i + 1)..Len(p) :
                   p[m] = ")" /\ Depth(p, m) = Depth(p, i) - 1}
  IN IF closes = {} THEN 0
     ELSE CHOOSE m \in closes : \A n \in closes : m <= n

\* p has a group that holds a quantifier and is itself followed by one.
QuantifiedGroupUnderQuantifier(p) ==
  \E i \in 1..Len(p) :
    /\ p[i] = "("
    /\ Closing(p, i) # 0
    /\ At(p, Closing(p, i) + 1) \in {"+", "*", "?", "{"}
    /\ \E k \in (i + 1)..(Closing(p, i) - 1) : p[k] \in {"+", "*", "?", "{"}

\* C17: safe_compile_pattern raises PatternCompilationError for every
\* pattern with a group that holds a quantifier and is immediately followed
\* by another quantifier, nested parentheses included, and calls no method
\* of the pattern.
C17_NestedQuantifierRejected ==
  (regex_pc # "safe_compile_pattern" /\ QuantifiedGroupUnderQuantifier(pattern)) =>
    /\ compiled.raised
    /\ compiled.error = "PatternCompilationError"
    /\ calls = 0

\* p holds two or more unbounded wildcards, each ".*" or ".+".
TwoUnboundedWildcards(p) ==
  \E i \in 1..Len(p) : \E j \in (i + 2)..Len(p) :
    /\ SubSeq(p, i, i + 1) \in {<<".", "*">>, <<".", "+">>}
    /\ j + 1 <= Len(p)
    /\ SubSeq(p, j, j + 1) \in {<<".", "*">>, <<".", "+">>}

\* C18: every pattern with two or more unbounded wildcards, alike or not,
\* and neither "^" in front nor "$" at the end is rejected.
C18_UnanchoredWildcardsRejected ==
  (/\ regex_pc # "safe_compile_pattern"
   /\ TwoUnboundedWildcards(pattern)
   /\ ~startswith(pattern, <<"^">>)
   /\ pattern[Len(pattern)] # "$") =>
    compiled.raised /\ "unbounded_wildcards" \in Range(compiled.detail)

\* ------------------------------------------------ chunker, long words
\* The words of t longer than n, as <<first, last>> positions: maximal runs
\* without whitespace.
LongWords(t, n) ==
  {w \in (1..Len(t)) \X (1..Len(t)) :
     /\ w[2] - w[1] + 1 > n
     /\ \A k \in w[1]..w[2] : t[k] \notin Whitespace
     /\ (w[1] = 1 \/ t[w[1] - 1] \in Whitespace)
     /\ (w[2] = Len(t) \/ t[w[2] + 1] \in Whitespace)}

\* C21 as stated: every word of the text longer than chunk_size is returned
\* whole, as a chunk of its own.
C21_LongWordEmittedWhole ==
  pc = "returned" =>
    \A w \in LongWords(content, chunk_size) :
      \E k \in 1..Len(chunks) : chunks[k] = SubSeq(content, w[1], w[2])

\* C21 amended: a text longer than chunk_size is cut down to the character:
\* no returned chunk is longer than chunk_size, so a word longer than
\* chunk_size is in no chunk whole.
C21_LongWordIsCut ==
  (pc = "returned" /\ Len(content) > chunk_size) =>
    /\ \A k \in 1..Len(chunks) : Len(chunks[k]) <= chunk_size
    /\ \A w \in LongWords(content, chunk_size) :
         \A k \in 1..Len(chunks) : ~IsSubstring(SubSeq(content, w[1], w[2]), chunks[k])

\* A text with a word longer than chunk_size and another word was chunked.
C21_Witness ==
  /\ pc = "returned"
  /\ LongWords(content, chunk_size) # {}
  /\ NoWhitespace(content) # content
  /\ chunk_size > 1
  /\ Len(chunks) > 1

\* ------------------------------------------------ map phase, calls
\* C24: in the map phase llm_caller is called once for each chunk, when its
\* task runs, and never again, whether the call raised, returned text that
\* holds no item or returned text that validate_response flags; and the
\* changes collected from a returned response are the items parsed from it,
\* flagged or not.
C24_MapCallsOncePerChunk ==
  /\ [](pc = "map" =>
          \A i \in DOMAIN futures :
            futures[i].llm_calls =
              IF futures[i].state \in {"finished", "collected"} THEN 1 ELSE 0)
  /\ [][(pc = "map" /\ pc' = "map") =>
          \A i \in DOMAIN futures :
            (futures[i].state = "finished" /\ futures'[i].state = "collected") =>
              /\ futures'[i].llm_calls = 1
              /\ Contents(all_changes') =
                   Contents(all_changes) \o
                     (IF futures[i].raised THEN <<>>
                      ELSE Contents(extract_changes_from_response(futures[i].response)))]_vars

\* All tasks are collected: one raised, one returned nothing to parse, one
\* returned a flagged response whose item was collected.
C24_Witness ==
  /\ pc = "map"
  /\ AllCollected
  /\ \E i \in DOMAIN futures : futures[i].raised
  /\ \E i \in DOMAIN futures : ~futures[i].raised /\ futures[i].response = RespRefusal
  /\ \E i \in DOMAIN futures : ~futures[i].raised /\ futures[i].response = RespFlagged
  /\ Len(all_changes) = 1
  /\ all_changes[1].title = "Audit"
  /\ \A i \in DOMAIN futures : futures[i].llm_calls = 1

\* ------------------------------------------- truncate_for_context, claims
\* The rank of a section type in the order breaking, security, feature,
\* fix, other.
Rank(t) ==
  CASE t = "breaking" -> 1 [] t = "security" -> 2 [] t = "feature" -> 3
    [] t = "fix" -> 4 [] t = "other" -> 5

\* C23: the parts of the output are sections in the order breaking,
\* security, feature, fix, other; when a section is in the output, every
\* parsed section of higher priority is in it too, in full, and a section
\* that was truncated is the last part.
C23_SectionsByPriority ==
  trunc_pc = "returned" =>
    \A k \in 1..Len(result_parts) :
      /\ result_parts[k].section \in DOMAIN parsed_sections
      /\ \A j \in 1..(k - 1) :
           Rank(result_parts[j].section) < Rank(result_parts[k].section)
      /\ \A t \in DOMAIN parsed_sections :
           Rank(t) < Rank(result_parts[k].section) =>
             \E j \in 1..(k - 1) :
               /\ result_parts[j] = Part(t, parsed_sections[t], FALSE)
      /\ result_parts[k].cut => k = Len(result_parts)
      /\ ~result_parts[k].cut => result_parts[k].lines = parsed_sections[result_parts[k].section]

\* The breaking section is in the output in full, the fix section after it
\* truncated, and the section "other" was dropped.
C23_Witness ==
  /\ trunc_pc = "returned"
  /\ DOMAIN parsed_sections = {"breaking", "fix", "other"}
  /\ Len(result_parts) = 2
  /\ result_parts[1] = Part("breaking", parsed_sections["breaking"], FALSE)
  /\ result_parts[2].section = "fix"
  /\ result_parts[2].cut
  /\ result_parts[2].lines # parsed_sections["fix"]

\* The number of times line l stands in the sections of d.
RECURSIVE CountIn(_, _, _)
CountIn(l, d, types) ==
  IF types = {} THEN 0
  ELSE LET t == CHOOSE x \in types : TRUE
       IN Count(d[t], l) + CountIn(l, d, types \ {t})

\* C29: every line of the content is in exactly one of the sections that
\* parse_changelog_sections returns.
C29_ParseLosesNoLine ==
  trunc_pc # "parse_changelog_sections" =>
    \A l \in Range(changelog) :
      CountIn(l, parsed_sections, DOMAIN parsed_sections) = Count(changelog, l)

\* C30: estimate_tokens of the text truncate_for_context returns is at most
\* max_tokens.
C30_OutputFitsBudget ==
  trunc_pc = "returned" => estimate_tokens(truncated_content) <= max_tokens

\* ------------------------------------------- summarize_to_budget, claims
\* C22: whatever summarize_to_budget returns fits the budget, on each of its
\* four return paths; llm_caller was called once for each chunk (once in all
\* on the single-chunk path, never on the passthrough) and at most once more
\* for the reduce: an answer over the budget is truncated, not summarized
\* again.
C22_ReturnedContentFitsBudget ==
  summ_pc = "returned" =>
    /\ fits_budget(summ_result.content, summary_budget)
    /\ summ_calls =
         IF fits_budget(document, summary_budget) THEN 0
         ELSE IF Len(summ_chunks) <= 1 THEN 1
         ELSE IF summaries = <<>> THEN Len(summ_chunks)
         ELSE Len(summ_chunks) + 1

\* The reduce answer was over the budget and was truncated.
C22_Witness ==
  /\ summ_pc = "returned"
  /\ summary_budget = 1
  /\ Len(summ_chunks) > 1
  /\ summaries # <<>>
  /\ \E i \in 1..Len(results) : results[i].text = <<>>
  /\ summ_result.was_summarized
  /\ Len(summ_result.content) = 4
  /\ summ_result.warnings # <<>>

\* ------------------------------------------- call_llm_with_retry, claims
\* The errors as the claim names them.
NamesAuthentication(e) == is_auth_error(e)
NamesRateLimit(e) ==
  \/ contains(error_str(e), <<"4", "2", "9">>)
  \/ contains(error_str(e), <<"r", "a", "t", "e", " ", "l", "i", "m", "i", "t">>)
NamesRetryable(e) ==
  ~NamesAuthentication(e) /\ (NamesRateLimit(e) \/ is_server_error(e))
\* The exception of provider call k, <<>> if it returned content.
ErrorOf(k) == caught(provider_log[k])

\* C25: call_llm_with_retry makes at most max_retries provider calls; it
\* returns on the first response with content; an authentication error
\* (401, 403, authentication) ends it with RuntimeError at once; only a rate
\* limit (429, rate limit) or a server error (500, 502, 503) is followed by
\* another call, and when every call fails so, there are exactly max_retries
\* calls before the RuntimeError.
C25_RetryPolicy ==
  /\ Len(provider_log) <= max_retries
  /\ \A k \in 1..Len(provider_log) :
       /\ ErrorOf(k) = <<>> =>
            k = Len(provider_log) /\ retry_pc = "returned"
       /\ (ErrorOf(k) # <<>> /\ NamesAuthentication(ErrorOf(k))) =>
            k = Len(provider_log) /\ retry_pc = "raised" /\ retry_raised = "auth"
       /\ (ErrorOf(k) # <<>> /\ k < Len(provider_log)) => NamesRetryable(ErrorOf(k))
  /\ (/\ retry_pc = "raised"
      /\ \A k \in 1..Len(provider_log) :
           ErrorOf(k) # <<>> /\ NamesRetryable(ErrorOf(k)))
     => Len(provider_log) = max_retries /\ retry_raised = "failed"

\* -------------------------------------------------------- run_phase2, claims
\* The calls _usage counts for the model, 0 when it does not know the model.
CallsOf(u) == IF "model" \in DOMAIN u.models THEN u.models["model"] ELSE 0

\* C28: when run_phase2 returns after N tasks whose calls succeeded at the
\* first attempt, _usage.total_calls and the calls counter of the model have
\* both grown by N, in whatever order the threads ran AggregateUsage.add.
C28_NoUsageUpdateLost ==
  phase2_pc = "returned" =>
    /\ usage.total_calls = usage_before.total_calls + Len(task_pc)
    /\ CallsOf(usage) = CallsOf(usage_before) + Len(task_pc)

\* ------------------------------------------------ sanitize_content, claims
\* C26: what sanitize_content returns holds no match of a pattern of
\* SANITIZATION_PATTERNS: no line starts with a role prefix and there is no
\* delimiter tag, [INST] marker, special token or override phrase in it,
\* also when the removal of one match joins the two halves of another.
C26_ResultHoldsNoPattern ==
  san_pc = "returned" =>
    \A k \in 1..Len(SANITIZATION_PATTERNS) :
      ~re_search(SANITIZATION_PATTERNS[k], san_result)

=============================================================================
